---- MODULE Spec2Model ----
(***************************************************************************)
(* A model of the collection pipeline of discogs-vinyl-sorter:             *)
(*   - CollectionCache (autosort_gui.py): the currency-keyed price cache,  *)
(*   - build_once (autosort_gui.py): authenticate, collect, price phase,   *)
(*     sort, with the messages it puts on the progress queue,              *)
(*   - api_get (core/api.py, discogs_app.py): the retry loop,              *)
(*   - iterate_collection (core/api.py, discogs_app.py): pagination.       *)
(* Each part has its own specification over its own variables; the other   *)
(* variables keep their initial values there.                              *)
(***************************************************************************)
EXTENDS Integers, Sequences, FiniteSets, TLC

VARIABLES
  \* ---- CollectionCache and the clock
  cache,            \* CollectionCache._data: [username, releases]
  cache_file,       \* what the cache file on disk holds (the last _save)
  now,              \* time.time(), in whole seconds
  quoted,           \* history: currency in which the API quoted a cached price
  stored_by,        \* history: the username whose run stored a cached price
  \* ---- build_once
  pc,               \* position of the watcher thread in build_once
  cfg,              \* AutoConfig fields read by build_once
  username,         \* build_once: the username _get_user_headers returned
  collected,        \* history: the rows as _collect_rows returned them
  rows,             \* the ReleaseRow list of the run (mutated in place)
  needing,          \* releases_needing_fetch, as indices into rows
  price_cache,      \* fetch_prices_for_rows: release_id -> fetched tuple
  fidx,             \* fetch_prices_for_rows: position of its for loop
  requested,        \* marketplace requests issued in this run, in order
  main_progress_q,  \* messages put on the progress queue in this run
  file_writes,      \* cache file writes in this run
  rows_sorted,      \* result of sort_rows (None until sorting completed)
  runs,             \* build_once calls started so far
  \* ---- api_get
  a_pc,             \* "idle", "loop", "returned" or "raised"
  retries,          \* the retries argument
  attempt,          \* the for loop's attempt, from 0
  last_error,       \* last_error (None or the error recorded)
  a_log,            \* HTTP requests and sleeps of the call, in order
  a_result,         \* the response returned or the error raised
  \* ---- iterate_collection
  i_pc,             \* "idle", "loop" or "done"
  max_pages,        \* the max_pages argument (None or a number)
  page,             \* page
  total_pages,      \* total_pages (None until the first response)
  i_requested,      \* the page numbers requested, in order
  responses,        \* history: what the API answered, in order
  yielded,          \* the items yielded to the caller, in order
  \* ---- a CollectionCache object and its file, on their own
  k_pc,             \* "none" (not constructed) or "ready"
  k_file,           \* what the cache file holds
  k_data,           \* CollectionCache._data: [username, releases]
  k_intact,         \* _data has its "releases" key
  k_origin,         \* history: the file the object was constructed from
  k_before,         \* history: _data before the last operation
  k_op,             \* history: the last operation and its arguments
  k_raised,         \* history: TRUE when the last operation raised
  k_ops,            \* operations called on the object so far
  \* ---- make_sort_keys
  s_pc,             \* "idle" or "called"
  s_args,           \* the arguments of the call
  s_keys,           \* what discogs_app.make_sort_keys returned (None: not yet)
  s_core_keys,      \* what core.sorting.make_sort_keys returned
  \* ---- is_lp_33 and collect_lp_rows
  l_pc,             \* "idle" or "called"
  l_args,           \* the arguments of is_lp_33
  l_result,         \* what discogs_app.is_lp_33 returned (None: not yet)
  l_core_result,    \* what core.sorting.is_lp_33 returned
  c_pc,             \* collect_lp_rows: "idle", "iterating", "returned"
  c_args,           \* lp_strict, lp_probable, collect_exclusions
  c_seen,           \* history: the items iterate_collection yielded
  c_rows,           \* rows
  c_excluded_probable,  \* excluded_probable
  c_result,         \* what collect_lp_rows returned (None: not yet)
  \* ---- sort_rows
  t_pc,             \* "idle", "called" or "returned"
  t_args,           \* rows, various_policy, sort_by
  t_result,         \* the list sort_rows returned (None: not yet)
  \* ---- ManualOrderManager
  m_data,           \* ManualOrderManager._data: [order, enabled]
  m_call,             \* history: _data and the rows of the last apply_order
  m_result,         \* what the last apply_order returned (None: none yet)
  \* ---- autosort_gui: the watcher thread and the UI thread
  w_pc,             \* where the watcher thread is in _watch_loop
  _force_rebuild,   \* App._force_rebuild
  _wake,            \* App._wake is set
  _last_count,      \* App._last_count (None: no count yet)
  w_count,          \* the watcher's local count
  w_force,          \* the watcher's local force
  w_decision,       \* what the watcher last decided at the poll
  u_pc,             \* where the UI thread is in _refresh_now
  u_refreshes,      \* manual refreshes requested so far
  h_pending,        \* history: a refresh was requested, no forced build begun since
  h_last_failed,    \* history: the last build attempt raised
  \* ---- gui_app: the Run button
  g_clicks,         \* clicks on Run so far
  g_running         \* _run_task threads that have not ended

cacheVars == <<cache, cache_file, now, quoted, stored_by>>
buildVars == <<pc, cfg, username, collected, rows, needing, price_cache, fidx, requested,
               main_progress_q, file_writes, rows_sorted, runs>>
apiVars == <<a_pc, retries, attempt, last_error, a_log, a_result>>
iterVars == <<i_pc, max_pages, page, total_pages, i_requested, responses,
              yielded>>
objVars == <<k_pc, k_file, k_data, k_intact, k_origin, k_before, k_op,
             k_raised, k_ops>>
keysVars == <<s_pc, s_args, s_keys, s_core_keys>>
lpVars == <<l_pc, l_args, l_result, l_core_result>>
collectVars == <<c_pc, c_args, c_seen, c_rows, c_excluded_probable, c_result>>
sortVars == <<t_pc, t_args, t_result>>
manualVars == <<m_data, m_call, m_result>>
watchVars == <<w_pc, _force_rebuild, _wake, _last_count, w_count, w_force, w_decision, u_pc, u_refreshes, h_pending, h_last_failed>>
runVars == <<g_clicks, g_running>>
vars == <<cacheVars, buildVars, apiVars, iterVars, objVars, keysVars,
          lpVars, collectVars,
          sortVars,
          manualVars,
          watchVars,
          runVars>>

\* What each part leaves alone.
outsideBuild == <<apiVars, iterVars, objVars, keysVars,
                  lpVars, collectVars,
                  sortVars,
                  manualVars,
                  watchVars,
                  runVars>>
outsideApi == <<cacheVars, buildVars, iterVars, objVars, keysVars,
                lpVars, collectVars,
                sortVars,
                manualVars,
                watchVars,
                runVars>>
outsideIter == <<cacheVars, buildVars, apiVars, objVars, keysVars,
                 lpVars, collectVars,
                 sortVars,
                 manualVars,
                 watchVars,
                 runVars>>
outsideObj == <<cacheVars, buildVars, apiVars, iterVars, keysVars,
                lpVars, collectVars,
                sortVars,
                manualVars,
                watchVars,
                runVars>>
outsideKeys == <<cacheVars, buildVars, apiVars, iterVars, objVars,
                 lpVars, collectVars,
                 sortVars,
                 manualVars,
                 watchVars,
                 runVars>>
outsideLp == <<cacheVars, buildVars, apiVars, iterVars, objVars, keysVars,
              collectVars,
               sortVars,
               manualVars,
               watchVars,
               runVars>>
outsideCollect == <<cacheVars, buildVars, apiVars, iterVars, objVars,
                    keysVars, lpVars,
                    sortVars,
                    manualVars,
                    watchVars,
                    runVars>>
outsideSort == <<cacheVars, buildVars, apiVars, iterVars, objVars, keysVars,
                 lpVars, collectVars,
                 manualVars,
                 watchVars,
                 runVars>>
outsideManual == <<cacheVars, buildVars, apiVars, iterVars, objVars, keysVars,
                   lpVars, collectVars, sortVars,
                   watchVars,
                   runVars>>
outsideWatch == <<cacheVars, buildVars, apiVars, iterVars, objVars, keysVars,
                  lpVars, collectVars, sortVars, manualVars,
                  runVars>>
outsideRun == <<cacheVars, buildVars, apiVars, iterVars, objVars, keysVars,
                lpVars, collectVars, sortVars, manualVars, watchVars>>

-----------------------------------------------------------------------------
(* Python's Optional[T]: None is the empty tuple, a value x is <<x>>.       *)
None == << >>
Some(x) == <<x>>
Val(o) == o[1]

Range(s) == {s[k] : k \in 1..Len(s)}

\* ---- bounds of the model
MaxRuns == 2
MaxRetries == 3
MaxTotal == 3
PerPage == 2
MaxOps == 3
MaxItems == 3
MaxSortRows == 3
MaxRefreshes == 2
MaxClicks == 2

\* ---- program constants
PRICE_CACHE_MAX_AGE_SECONDS == 604800
NoReleaseId == 0

\* ---- domains the inputs are drawn from
Releases == {1, 2}
Currencies == {"USD", "EUR"}
Users == {"alice", "bob"}
Prices == {5}
ListedCounts == {3}
SortBys == {"artist", "price_desc"}
Statuses == {200, 399, 400, 404, 429, 499, 500, 599, 600}
RetryAfterHeaders == {None, Some("7"), Some("Wed, 21 Oct 2015 07:28:00 GMT")}
PagesFields == {None} \cup {Some(n) : n \in 0..MaxTotal}
Caps == {None} \cup {Some(n) : n \in 0..MaxTotal}
PageSizes == {0, PerPage}
RequestCap == MaxTotal + 1
Elapsed == {PRICE_CACHE_MAX_AGE_SECONDS, PRICE_CACHE_MAX_AGE_SECONDS + 1}

-----------------------------------------------------------------------------
(* CollectionCache                                                          *)

\* CollectionCache.__init__ with no cache file: the empty _data.
EmptyData(u) == [username |-> u, releases |-> << >>]

HasRelease(data, release_id) == release_id \in DOMAIN data.releases

HasPrice(data, release_id, currency) ==
  /\ HasRelease(data, release_id)
  /\ currency \in DOMAIN data.releases[release_id].prices

PriceData(data, release_id, currency) ==
  data.releases[release_id].prices[currency]

\* get_price with the age test off by one (>= for >).
get_price_stale_at_threshold(data, release_id, currency, t) ==
  IF ~HasPrice(data, release_id, currency)
    THEN [lowest_price |-> None, num_for_sale |-> None, is_stale |-> TRUE]
    ELSE LET price_data == PriceData(data, release_id, currency)
         IN [lowest_price |-> price_data.lowest_price,
             num_for_sale |-> price_data.num_for_sale,
             is_stale |-> (t - price_data.fetched_at) >= PRICE_CACHE_MAX_AGE_SECONDS]

\* CollectionCache.get_price: (lowest_price, num_for_sale, is_stale)
get_price(data, release_id, currency, t) ==
  IF ~HasPrice(data, release_id, currency)
    THEN [lowest_price |-> None, num_for_sale |-> None, is_stale |-> TRUE]
    ELSE LET price_data == PriceData(data, release_id, currency)
         IN [lowest_price |-> price_data.lowest_price,
             num_for_sale |-> price_data.num_for_sale,
             is_stale |-> (t - price_data.fetched_at) > PRICE_CACHE_MAX_AGE_SECONDS]

\* set_price that replaces the release's prices by the new entry alone.
set_price_replaces_prices(data, release_id, currency, lowest_price, num_for_sale, t) ==
  LET entry == [lowest_price |-> lowest_price,
                num_for_sale |-> num_for_sale,
                fetched_at |-> t]
      updated == [cached_at |-> t, prices |-> (currency :> entry)]
  IN [data EXCEPT !.releases =
        [r \in DOMAIN data.releases \cup {release_id} |->
           IF r = release_id THEN updated ELSE data.releases[r]]]

\* CollectionCache.set_price
set_price(data, release_id, currency, lowest_price, num_for_sale, t) ==
  LET release == IF HasRelease(data, release_id)
                   THEN data.releases[release_id]
                   ELSE [cached_at |-> t, prices |-> << >>]
      entry == [lowest_price |-> lowest_price,
                num_for_sale |-> num_for_sale,
                fetched_at |-> t]
      prices == [c \in DOMAIN release.prices \cup {currency} |->
                   IF c = currency THEN entry ELSE release.prices[c]]
      updated == [release EXCEPT !.prices = prices]
  IN [data EXCEPT !.releases =
        [r \in DOMAIN data.releases \cup {release_id} |->
           IF r = release_id THEN updated ELSE data.releases[r]]]

\* set_username that records the new name and keeps the releases.
set_username_keeps_releases(data, u) == [data EXCEPT !.username = Some(u)]

\* CollectionCache.set_username: TRUE when the cache is cleared (and saved).
UsernameDiffers(data, u) == data.username # Some(u)

set_username(data, u) ==
  IF UsernameDiffers(data, u) THEN EmptyData(Some(u)) ELSE data

-----------------------------------------------------------------------------
(* Rows, the marketplace and sorting                                        *)

\* core.models.ReleaseRow as build_row creates it: no pricing yet. The sort
\* keys and the year are small numbers standing for the strings' order.
NewRow(release_id, artist_display, sort_artist, sort_title, year) ==
  [release_id |-> release_id, artist_display |-> artist_display,
   sort_artist |-> sort_artist, sort_title |-> sort_title, year |-> year,
   lowest_price |-> None, median_price |-> None, num_for_sale |-> None,
   price_currency |-> ""]

RowA == NewRow(1, "Miles Davis", 2, 1, Some(1959))
RowB == NewRow(2, "Various", 3, 2, None)
RowA2 == NewRow(1, "Miles Davis", 2, 3, Some(1959))
RowN == NewRow(NoReleaseId, "ABBA", 1, 1, Some(1976))

\* The collections collect_lp_rows may return (rows in the API's order).
Collections ==
  { << >>, <<RowA>>, <<RowB, RowA>>, <<RowA, RowA2>>, <<RowN, RowA>> }

\* What GET /marketplace/stats/{id} may answer (status "error": api_get or
\* resp.json() raised).
MarketResponses ==
  {[status |-> "error", blocked_from_sale |-> FALSE, num_for_sale |-> None,
    lowest_price |-> None]}
  \cup
  {[status |-> "ok", blocked_from_sale |-> TRUE, num_for_sale |-> Some(n),
    lowest_price |-> None] : n \in ListedCounts}
  \cup
  {[status |-> "ok", blocked_from_sale |-> FALSE, num_for_sale |-> n,
    lowest_price |-> None] :
      n \in {None, Some(0)} \cup {Some(k) : k \in ListedCounts}}
  \cup
  {[status |-> "ok", blocked_from_sale |-> FALSE, num_for_sale |-> Some(n),
    lowest_price |-> Some([value |-> Some(p), currency |-> c])] :
      n \in ListedCounts, p \in Prices,
      c \in {None} \cup {Some(x) : x \in Currencies}}

\* fetch_release_price: (lowest_price, num_for_sale, actual_currency)
fetch_release_price(resp, currency) ==
  IF resp.status = "error"
    THEN <<None, None, currency>>
  ELSE IF resp.blocked_from_sale
    THEN <<None, Some(0), currency>>
  ELSE IF resp.num_for_sale = None \/ resp.num_for_sale = Some(0)
    THEN <<None, Some(0), currency>>
  ELSE IF resp.lowest_price # None
    THEN LET lowest_price_data == Val(resp.lowest_price)
             actual_currency == IF lowest_price_data.currency = None
                                  THEN currency
                                  ELSE Val(lowest_price_data.currency)
         IN <<lowest_price_data.value, resp.num_for_sale, actual_currency>>
  ELSE <<None, resp.num_for_sale, currency>>

\* Tuples of numbers in Python's order.
RECURSIVE TupleLess(_, _)
TupleLess(a, b) ==
  IF a = << >> \/ b = << >> THEN FALSE
  ELSE IF a[1] # b[1] THEN a[1] < b[1]
  ELSE TupleLess(Tail(a), Tail(b))

Flag(b) == IF b THEN 1 ELSE 0

PriceOr0(r) == IF r.lowest_price = None THEN 0 ELSE Val(r.lowest_price)

sort_key_price_desc(r) == <<Flag(r.lowest_price = None), 0 - PriceOr0(r)>>

\* A price key without the flag of the unknown price.
sort_key_price_asc_none_as_zero(r) == <<0, PriceOr0(r)>>

sort_key_price_asc(r) == <<Flag(r.lowest_price = None), PriceOr0(r)>>

YearOr9999(r) == IF r.year = None \/ r.year = Some(0) THEN 9999 ELSE Val(r.year)

sort_key_year(r) == <<YearOr9999(r), r.sort_artist, r.sort_title>>

is_various_artist(artist_disp) == artist_disp \in {"Various", "Various Artists"}

\* A general key in which Various rows carry no flag.
sort_key_general_without_flag(r, various_policy, sort_by) ==
  <<0, r.sort_artist, r.sort_title, 9999, r.sort_artist>>

sort_key_general(r, various_policy, sort_by) ==
  LET is_var == is_various_artist(r.artist_display)
      var_flag == Flag(various_policy = "last" /\ is_var)
      year_val == IF r.year = None THEN 9999 ELSE Val(r.year)
  IN IF various_policy = "title" /\ is_var
       THEN <<var_flag, r.sort_title, r.sort_title, year_val, r.sort_artist>>
     ELSE IF sort_by = "title"
       THEN <<var_flag, r.sort_title, r.sort_artist, year_val, r.sort_title>>
     ELSE <<var_flag, r.sort_artist, r.sort_title, year_val, r.sort_artist>>

SortKey(r, various_policy, sort_by) ==
  IF sort_by = "price_desc" THEN sort_key_price_desc(r)
  ELSE IF sort_by = "price_asc" THEN sort_key_price_asc(r)
  ELSE IF sort_by = "year" THEN sort_key_year(r)
  ELSE sort_key_general(r, various_policy, sort_by)

\* sorted(): stable, so a row goes after the rows whose key is not greater.
RECURSIVE InsertByKey(_, _, _, _)
InsertByKey(r, s, various_policy, sort_by) ==
  IF s = << >> THEN <<r>>
  ELSE IF TupleLess(SortKey(r, various_policy, sort_by),
                    SortKey(Head(s), various_policy, sort_by))
    THEN <<r>> \o s
  ELSE <<Head(s)>> \o InsertByKey(r, Tail(s), various_policy, sort_by)

RECURSIVE sort_rows(_, _, _)
sort_rows(rs, various_policy, sort_by) ==
  IF rs = << >> THEN << >>
  ELSE InsertByKey(rs[Len(rs)],
                   sort_rows(SubSeq(rs, 1, Len(rs) - 1), various_policy, sort_by),
                   various_policy, sort_by)

-----------------------------------------------------------------------------
(* build_once and its price phase                                           *)

Put(q, kind, text) == Append(q, <<kind, text>>)

need_prices(c) == c.show_prices \/ c.sort_by \in {"price_asc", "price_desc"}

\* CacheHit without the staleness test.
CacheHit_ignores_age(data, row, currency, t) ==
  /\ row.release_id # NoReleaseId
  /\ get_price(data, row.release_id, currency, t).lowest_price # None

\* _populate_prices_from_cache: the test that takes a row's price from the cache.
CacheHit(data, row, currency, t) ==
  /\ row.release_id # NoReleaseId
  /\ LET got == get_price(data, row.release_id, currency, t)
     IN ~got.is_stale /\ got.lowest_price # None

\* _populate_prices_from_cache: the row after the loop body.
PopulatedRow(data, row, currency, t) ==
  IF CacheHit(data, row, currency, t)
    THEN LET got == get_price(data, row.release_id, currency, t)
         IN [row EXCEPT !.lowest_price = got.lowest_price,
                        !.median_price = got.lowest_price,
                        !.num_for_sale = got.num_for_sale,
                        !.price_currency = currency]
    ELSE row

\* _populate_prices_from_cache: releases_needing_fetch (indices into rows).
NeedingFetch(data, rs, currency, t) ==
  SelectSeq([i \in 1..Len(rs) |-> i],
            LAMBDA i : ~CacheHit(data, rs[i], currency, t))

\* _populate_prices_from_cache: cached_count.
CachedCount(data, rs, currency, t) ==
  Cardinality({i \in 1..Len(rs) : CacheHit(data, rs[i], currency, t)})

\* _fetch_and_cache_prices: total_to_fetch.
TotalToFetch(rs, need) ==
  Cardinality({k \in 1..Len(need) : rs[need[k]].release_id # NoReleaseId})

\* PricedRow that also loses the row's sort keys.
PricedRow_drops_sort_keys(row, fetched) ==
  [row EXCEPT !.lowest_price = fetched[1],
              !.median_price = fetched[1],
              !.num_for_sale = fetched[2],
              !.price_currency = fetched[3],
              !.sort_artist = 0,
              !.sort_title = 0]

\* fetch_prices_for_rows: the pricing fields a row receives.
PricedRow(row, fetched) ==
  [row EXCEPT !.lowest_price = fetched[1],
              !.median_price = fetched[1],
              !.num_for_sale = fetched[2],
              !.price_currency = fetched[3]]

\* _fetch_and_cache_prices: what one fetched row makes of the cache.
StoreRow(data, row, currency, t) ==
  IF row.release_id # NoReleaseId /\ row.lowest_price # None
    THEN set_price(data, row.release_id, currency, row.lowest_price,
                   row.num_for_sale, t)
  ELSE IF row.release_id # NoReleaseId
    THEN set_price(data, row.release_id, currency, None, Some(0), t)
  ELSE data

\* _fetch_and_cache_prices: the loop over releases_needing_fetch, from k on.
RECURSIVE StoreRows(_, _, _, _, _, _)
StoreRows(data, rs, need, k, currency, t) ==
  IF k > Len(need) THEN data
  ELSE StoreRows(StoreRow(data, rs[need[k]], currency, t), rs, need, k + 1,
                 currency, t)

\* History: the currency the API answered in, for each price put in the cache.
NoQuote == [r \in Releases, c \in Currencies |-> ""]

QuotesAfterStore(q, rs, need, currency) ==
  [r \in Releases, c \in Currencies |->
     IF c = currency
        /\ \E k \in 1..Len(need) : rs[need[k]].release_id = r
       THEN LET k == CHOOSE j \in 1..Len(need) : rs[need[j]].release_id = r
            IN IF rs[need[k]].lowest_price # None
                 THEN rs[need[k]].price_currency ELSE ""
       ELSE q[r, c]]

\* History: the user whose run put each price in the cache; an entry that
\* is no longer in the cache has no owner.
OwnersOfKept(o, data) ==
  [r \in Releases, c \in Currencies |->
     IF HasPrice(data, r, c) THEN o[r, c] ELSE ""]

OwnersAfterStore(o, rs, need, currency, user) ==
  [r \in Releases, c \in Currencies |->
     IF c = currency /\ \E k \in 1..Len(need) : rs[need[k]].release_id = r
       THEN user ELSE o[r, c]]

NoCfg == [currency |-> "USD", show_prices |-> FALSE, sort_by |-> "artist"]

BuildInit ==
  /\ pc = "idle"
  /\ cfg = NoCfg
  /\ username = ""
  /\ collected = << >>
  /\ rows = << >>
  /\ needing = << >>
  /\ price_cache = << >>
  /\ fidx = 1
  /\ requested = << >>
  /\ main_progress_q = << >>
  /\ file_writes = 0
  /\ rows_sorted = None
  /\ runs = 0

\* CollectionCache() with no cache file yet.
CacheInit ==
  /\ cache = EmptyData(None)
  /\ cache_file = None
  /\ now = 0
  /\ quoted = NoQuote
  /\ stored_by = NoQuote


\* build_once is called (line 1057), some time after the previous run; first
\* message.
BuildStart ==
  /\ UNCHANGED outsideBuild
  /\ pc \in {"idle", "returned", "raised"}
  /\ runs < MaxRuns
  /\ \E currency \in Currencies, show_prices \in BOOLEAN, sort_by \in SortBys :
       cfg' = [currency |-> currency, show_prices |-> show_prices,
               sort_by |-> sort_by]
  /\ runs' = runs + 1
  /\ \E elapsed \in (IF runs = 0 THEN {0} ELSE Elapsed) : now' = now + elapsed
  /\ username' = ""
  /\ collected' = << >>
  /\ rows' = << >>
  /\ needing' = << >>
  /\ price_cache' = << >>
  /\ fidx' = 1
  /\ requested' = << >>
  /\ file_writes' = 0
  /\ rows_sorted' = None
  /\ main_progress_q' = Put(<< >>, "update", "Fetching collection")
  /\ pc' = "auth"
  /\ UNCHANGED <<cache, cache_file, quoted, stored_by>>

\* _get_user_headers raises: one error message, then the exception.
AuthFail ==
  /\ UNCHANGED outsideBuild
  /\ pc = "auth"
  /\ main_progress_q' = Put(main_progress_q, "error", "Failed to get user headers")
  /\ pc' = "raised"
  /\ UNCHANGED <<cacheVars, cfg, username, collected,
                 rows, needing, price_cache, fidx, requested,
                 file_writes, rows_sorted, runs>>

\* _get_user_headers returns; cache.set_username(username) (lines 1067-1068).
AuthOk ==
  /\ UNCHANGED outsideBuild
  /\ pc = "auth"
  /\ \E u \in Users :
       /\ username' = u
       /\ cache' = set_username(cache, u)
       /\ IF UsernameDiffers(cache, u)
            THEN /\ cache_file' = Some(cache')
                 /\ file_writes' = file_writes + 1
                 /\ quoted' = NoQuote
            ELSE UNCHANGED <<cache_file, file_writes, quoted>>
       /\ stored_by' = OwnersOfKept(stored_by, cache')
  /\ pc' = "mkdir"
  /\ UNCHANGED <<now, cfg, collected,
                 rows, needing, price_cache, fidx, requested,
                 main_progress_q, rows_sorted, runs>>

\* out_dir.mkdir raises OSError (line 1070, outside every try).
MkdirFail ==
  /\ UNCHANGED outsideBuild
  /\ pc = "mkdir"
  /\ pc' = "raised"
  /\ UNCHANGED <<cacheVars, cfg, username, collected,
                 rows, needing, price_cache, fidx, requested,
                 main_progress_q, file_writes, rows_sorted, runs>>

MkdirOk ==
  /\ UNCHANGED outsideBuild
  /\ pc = "mkdir"
  /\ main_progress_q' = Put(main_progress_q, "update", "Collecting rows")
  /\ pc' = "collect"
  /\ UNCHANGED <<cacheVars, cfg, username, collected,
                 rows, needing, price_cache, fidx, requested,
                 file_writes, rows_sorted, runs>>

\* _collect_rows raises (lines 1075-1078).
CollectFail ==
  /\ UNCHANGED outsideBuild
  /\ pc = "collect"
  /\ main_progress_q' = Put(main_progress_q, "error", "Failed to collect rows")
  /\ pc' = "raised"
  /\ UNCHANGED <<cacheVars, cfg, username, collected,
                 rows, needing, price_cache, fidx, requested,
                 file_writes, rows_sorted, runs>>

\* _collect_rows returns (lines 1079-1089).
CollectRows ==
  /\ UNCHANGED outsideBuild
  /\ pc = "collect"
  /\ \E rs \in Collections :
       /\ rows' = rs
       /\ collected' = rs
       /\ IF rs = << >>
            THEN /\ main_progress_q' =
                      Put(main_progress_q, "error", "No matching LPs found.")
                 /\ rows_sorted' = Some(<< >>)
                 /\ pc' = "returned"
          ELSE IF need_prices(cfg)
            THEN /\ main_progress_q' =
                      Put(Put(main_progress_q, "update", "Checking if price data is needed"),
                          "update", "Fetching album prices")
                 /\ rows_sorted' = rows_sorted
                 /\ pc' = "prices"
          ELSE /\ main_progress_q' =
                    Put(main_progress_q, "update", "Checking if price data is needed")
               /\ rows_sorted' = rows_sorted
               /\ pc' = "sort"
  /\ UNCHANGED <<cacheVars, cfg, username,
                 needing, price_cache, fidx, requested,
                 file_writes, runs>>

\* _handle_prices up to the call of fetch_prices_for_rows (lines 1138-1184).
PopulateFromCache ==
  /\ UNCHANGED outsideBuild
  /\ pc = "prices"
  /\ LET need == NeedingFetch(cache, rows, cfg.currency, now)
     IN /\ rows' = [i \in 1..Len(rows) |->
                      PopulatedRow(cache, rows[i], cfg.currency, now)]
        /\ needing' = need
        /\ IF need = << >>
             THEN /\ main_progress_q' =
                       Put(main_progress_q, "update", "All prices loaded from cache.")
                  /\ pc' = "sort"
             ELSE /\ main_progress_q' =
                       Put(Put(main_progress_q, "show", "Fetching album prices"),
                           "update", "Fetching album prices")
                  /\ pc' = "fetch"
  /\ fidx' = 1
  /\ price_cache' = << >>
  /\ UNCHANGED <<cacheVars, cfg, username, collected,
                 requested, file_writes, rows_sorted, runs>>

\* fetch_prices_for_rows: a row without release_id is skipped.
FetchSkip ==
  /\ UNCHANGED outsideBuild
  /\ pc = "fetch"
  /\ fidx <= Len(needing)
  /\ rows[needing[fidx]].release_id = NoReleaseId
  /\ fidx' = fidx + 1
  /\ UNCHANGED <<cacheVars, pc, cfg, username, collected,
                 rows, needing, price_cache, requested,
                 main_progress_q, file_writes, rows_sorted, runs>>

\* FetchLookup where a failed lookup's exception leaves the price phase.
FetchLookup_raises_on_failure ==
  /\ UNCHANGED outsideBuild
  /\ pc = "fetch"
  /\ fidx <= Len(needing)
  /\ LET i == needing[fidx]
         rid == rows[i].release_id
     IN /\ rid # NoReleaseId
        /\ rid \notin DOMAIN price_cache
        /\ \E resp \in MarketResponses :
             LET fetched == fetch_release_price(resp, cfg.currency)
             IN IF resp.status = "error"
                  THEN /\ pc' = "raised"
                       /\ main_progress_q' =
                            Put(Put(main_progress_q, "update", "progress"),
                                "error", "Failed to fetch prices")
                       /\ UNCHANGED <<price_cache, rows, fidx>>
                  ELSE /\ pc' = pc
                       /\ main_progress_q' =
                            Put(Put(main_progress_q, "update", "progress"),
                                "update", "progress")
                       /\ price_cache' = (rid :> fetched) @@ price_cache
                       /\ rows' = [rows EXCEPT ![i] = PricedRow(rows[i], fetched)]
                       /\ fidx' = fidx + 1
        /\ requested' = Append(requested, rid)
  /\ UNCHANGED <<cacheVars, cfg, username, collected, needing, file_writes,
                 rows_sorted, runs>>

\* FetchLookup that stores and saves each price as soon as it is fetched.
FetchLookup_saves_each_price ==
  /\ UNCHANGED outsideBuild
  /\ pc = "fetch"
  /\ fidx <= Len(needing)
  /\ LET i == needing[fidx]
         rid == rows[i].release_id
     IN /\ rid # NoReleaseId
        /\ rid \notin DOMAIN price_cache
        /\ \E resp \in MarketResponses :
             LET fetched == fetch_release_price(resp, cfg.currency)
             IN /\ price_cache' = (rid :> fetched) @@ price_cache
                /\ rows' = [rows EXCEPT ![i] = PricedRow(rows[i], fetched)]
                /\ cache' = set_price(cache, rid, cfg.currency, fetched[1],
                                      fetched[2], now)
        /\ cache_file' = Some(cache')
        /\ file_writes' = file_writes + 1
        /\ requested' = Append(requested, rid)
        /\ main_progress_q' =
             Put(Put(main_progress_q, "update", "progress"), "update", "progress")
  /\ fidx' = fidx + 1
  /\ UNCHANGED <<now, quoted, stored_by, pc, cfg, username, collected, needing,
                 rows_sorted, runs>>

\* fetch_prices_for_rows: first row of a release: the callback, the lookup.
FetchLookup ==
  /\ UNCHANGED outsideBuild
  /\ pc = "fetch"
  /\ fidx <= Len(needing)
  /\ LET i == needing[fidx]
         rid == rows[i].release_id
     IN /\ rid # NoReleaseId
        /\ rid \notin DOMAIN price_cache
        /\ \E resp \in MarketResponses :
             LET fetched == fetch_release_price(resp, cfg.currency)
             IN /\ price_cache' = (rid :> fetched) @@ price_cache
                /\ rows' = [rows EXCEPT ![i] = PricedRow(rows[i], fetched)]
        /\ requested' = Append(requested, rid)
        /\ main_progress_q' =
             Put(Put(main_progress_q, "update", "progress"), "update", "progress")
  /\ fidx' = fidx + 1
  /\ UNCHANGED <<cacheVars, pc, cfg, username, collected,
                 needing, file_writes, rows_sorted, runs>>

\* FetchReuse where a later row of a release is looked up once more.
FetchReuse_looks_up_again ==
  /\ UNCHANGED outsideBuild
  /\ pc = "fetch"
  /\ fidx <= Len(needing)
  /\ LET i == needing[fidx]
         rid == rows[i].release_id
     IN /\ rid # NoReleaseId
        /\ rid \in DOMAIN price_cache
        /\ \E resp \in MarketResponses :
             LET fetched == fetch_release_price(resp, cfg.currency)
             IN /\ price_cache' = (rid :> fetched) @@ price_cache
                /\ rows' = [rows EXCEPT ![i] = PricedRow(rows[i], fetched)]
        /\ requested' = Append(requested, rid)
  /\ fidx' = fidx + 1
  /\ UNCHANGED <<cacheVars, pc, cfg, username, collected,
                 needing, main_progress_q, file_writes, rows_sorted, runs>>

\* fetch_prices_for_rows: a later row of a release already looked up.
FetchReuse ==
  /\ UNCHANGED outsideBuild
  /\ pc = "fetch"
  /\ fidx <= Len(needing)
  /\ LET i == needing[fidx]
         rid == rows[i].release_id
     IN /\ rid # NoReleaseId
        /\ rid \in DOMAIN price_cache
        /\ rows' = [rows EXCEPT ![i] = PricedRow(rows[i], price_cache[rid])]
  /\ fidx' = fidx + 1
  /\ UNCHANGED <<cacheVars, pc, cfg, username, collected,
                 needing, price_cache, requested,
                 main_progress_q, file_writes, rows_sorted, runs>>

\* _fetch_and_cache_prices after the fetch: set_price per row, one save
\* (lines 1191-1202).
CachePrices ==
  /\ UNCHANGED outsideBuild
  /\ pc = "fetch"
  /\ fidx > Len(needing)
  /\ cache' = StoreRows(cache, rows, needing, 1, cfg.currency, now)
  /\ cache_file' = Some(cache')
  /\ file_writes' = file_writes + 1
  /\ quoted' = QuotesAfterStore(quoted, rows, needing, cfg.currency)
  /\ stored_by' = OwnersAfterStore(stored_by, rows, needing, cfg.currency, username)
  /\ main_progress_q' =
       Put(Put(main_progress_q, "update", "Price fetch complete."), "close", "")
  /\ pc' = "sort"
  /\ UNCHANGED <<now, cfg, username, collected,
                 rows, needing, price_cache, fidx, requested,
                 rows_sorted, runs>>

\* Sorting, output lines, the done message, the result (lines 1096-1105).
SortAndFinish ==
  /\ UNCHANGED outsideBuild
  /\ pc = "sort"
  /\ rows_sorted' = Some(sort_rows(rows, "normal", cfg.sort_by))
  /\ main_progress_q' =
       Put(Put(Put(main_progress_q, "update", "Sorting collection"),
               "update", "Generating output files"),
           "done", "Done!")
  /\ pc' = "returned"
  /\ UNCHANGED <<cacheVars, cfg, username, collected,
                 rows, needing, price_cache, fidx, requested,
                 file_writes, runs>>

-----------------------------------------------------------------------------
(* api_get: the retry loop                                                  *)

_should_retry_any_error(status) == status >= 400

\* _should_retry
_should_retry(status) == status = 429 \/ (500 <= status /\ status < 600)

Min(a, b) == IF a < b THEN a ELSE b

\* float(retry_after): the seconds, or None for a ValueError.
ParseFloat(text) == IF text = "7" THEN Some(7) ELSE None

\* min(backoff * (2 ** attempt), 10.0)
BackoffSeconds(n, backoff) == Min(backoff * 2 ^ n, 10)

\* _retry_sleep_seconds
_retry_sleep_seconds(resp, n, backoff) ==
  IF resp.retry_after # None /\ ParseFloat(Val(resp.retry_after)) # None
    THEN Val(ParseFloat(Val(resp.retry_after)))
    ELSE BackoffSeconds(n, backoff)

AttemptsLeft_one_more(n, budget) == n <= budget

\* for attempt in range(retries)
AttemptsLeft(n, budget) == n < budget

TransientError(status) == [kind |-> "transient", status |-> status]
FatalError(status) == [kind |-> "fatal", status |-> status]
TransportError == [kind |-> "transport", status |-> 0]
OtherException == [kind |-> "other", status |-> 0]
ArgumentError == [kind |-> "ValueError", status |-> 0]
RetriesFailed == [kind |-> "failed after retries", status |-> 0]

HttpResponses ==
  {[status |-> st, retry_after |-> h] : st \in Statuses, h \in RetryAfterHeaders}

\* The events of a call: a request with its outcome, a time.sleep.
Get(resp) == [op |-> "get", raised |-> "", status |-> resp.status]
GetRaised(exception) == [op |-> "get", raised |-> exception, status |-> 0]
Sleep(seconds) == [op |-> "sleep", seconds |-> seconds]

ApiInit ==
  /\ a_pc = "idle"
  /\ retries = 0
  /\ attempt = 0
  /\ last_error = None
  /\ a_log = << >>
  /\ a_result = None

\* api_get is called; without headers and session it raises before the loop.
ApiCall ==
  /\ a_pc = "idle"
  /\ \E n \in 0..MaxRetries, has_auth \in BOOLEAN :
       /\ retries' = n
       /\ IF has_auth
            THEN a_pc' = "loop" /\ a_result' = a_result
            ELSE a_pc' = "raised" /\ a_result' = Some(ArgumentError)
  /\ attempt' = 0
  /\ last_error' = None
  /\ a_log' = << >>
  /\ UNCHANGED outsideApi

\* An attempt answered with a status below 400: the response is returned.
ApiResponseOk ==
  /\ a_pc = "loop"
  /\ AttemptsLeft(attempt, retries)
  /\ \E resp \in HttpResponses :
       /\ resp.status < 400
       /\ a_log' = Append(a_log, Get(resp))
       /\ a_result' = Some([kind |-> "response", status |-> resp.status])
  /\ a_pc' = "returned"
  /\ UNCHANGED <<retries, attempt, last_error>>
  /\ UNCHANGED outsideApi

\* An attempt answered 429 or 5xx: sleep, record the error, next attempt.
ApiResponseTransient ==
  /\ a_pc = "loop"
  /\ AttemptsLeft(attempt, retries)
  /\ \E resp \in HttpResponses :
       /\ resp.status >= 400
       /\ _should_retry(resp.status)
       /\ a_log' = Append(Append(a_log, Get(resp)),
                          Sleep(_retry_sleep_seconds(resp, attempt, 1)))
       /\ last_error' = Some(TransientError(resp.status))
  /\ attempt' = attempt + 1
  /\ UNCHANGED <<a_pc, retries, a_result>>
  /\ UNCHANGED outsideApi

\* An attempt answered any other status from 400: raised at once.
ApiResponseFatal ==
  /\ a_pc = "loop"
  /\ AttemptsLeft(attempt, retries)
  /\ \E resp \in HttpResponses :
       /\ resp.status >= 400
       /\ ~_should_retry(resp.status)
       /\ a_log' = Append(a_log, Get(resp))
       /\ a_result' = Some(FatalError(resp.status))
  /\ a_pc' = "raised"
  /\ UNCHANGED <<retries, attempt, last_error>>
  /\ UNCHANGED outsideApi

\* requests.get raised a requests.RequestException: record, sleep, next.
ApiTransportError ==
  /\ a_pc = "loop"
  /\ AttemptsLeft(attempt, retries)
  /\ a_log' = Append(Append(a_log, GetRaised("transport")),
                     Sleep(BackoffSeconds(attempt, 1)))
  /\ last_error' = Some(TransportError)
  /\ attempt' = attempt + 1
  /\ UNCHANGED <<a_pc, retries, a_result>>
  /\ UNCHANGED outsideApi

\* requests.get raised another exception: it propagates unchanged.
ApiOtherException ==
  /\ a_pc = "loop"
  /\ AttemptsLeft(attempt, retries)
  /\ a_log' = Append(a_log, GetRaised("other"))
  /\ a_result' = Some(OtherException)
  /\ a_pc' = "raised"
  /\ UNCHANGED <<retries, attempt, last_error>>
  /\ UNCHANGED outsideApi

\* The loop is over: raise last_error, or the generic error without one.
ApiExhausted ==
  /\ a_pc = "loop"
  /\ ~AttemptsLeft(attempt, retries)
  /\ a_result' = IF last_error # None THEN last_error ELSE Some(RetriesFailed)
  /\ a_pc' = "raised"
  /\ UNCHANGED <<retries, attempt, last_error, a_log>>
  /\ UNCHANGED outsideApi

ApiNext ==
  \/ ApiCall
  \/ ApiResponseOk
  \/ ApiResponseTransient
  \/ ApiResponseFatal
  \/ ApiTransportError
  \/ ApiOtherException
  \/ ApiExhausted

-----------------------------------------------------------------------------
(* iterate_collection: pagination                                           *)

\* Python truthiness of an Optional[int]: None and 0 are false.
Truthy(o) == o # None /\ Val(o) # 0

TotalAfter_every_response(total, resp) ==
  Some(IF resp.pages = None THEN 1 ELSE Val(resp.pages))

\* if total_pages is None: total_pages = int(...get("pages", 1))
TotalAfter(total, resp) ==
  IF total = None
    THEN Some(IF resp.pages = None THEN 1 ELSE Val(resp.pages))
    ELSE total

\* The two break tests after page += 1.
StopsAt(next_page, cap, total) ==
  \/ Truthy(cap) /\ next_page > Val(cap)
  \/ Truthy(total) /\ next_page > Val(total)

\* What the API may answer for a page: any pages field, no item or a full page.
PageResponses(p) ==
  {[pages |-> f, releases |-> [k \in 1..n |-> <<p, k>>]] :
     f \in PagesFields, n \in PageSizes}

IterInit ==
  /\ i_pc = "idle"
  /\ max_pages = None
  /\ page = 1
  /\ total_pages = None
  /\ i_requested = << >>
  /\ responses = << >>
  /\ yielded = << >>

\* iterate_collection is called and its generator consumed.
IterCall ==
  /\ i_pc = "idle"
  /\ \E cap \in Caps : max_pages' = cap
  /\ page' = 1
  /\ total_pages' = None
  /\ i_pc' = "loop"
  /\ UNCHANGED <<i_requested, responses, yielded>>
  /\ UNCHANGED outsideIter

\* One turn of the while loop: request the page, yield its items, advance,
\* test the breaks. The model follows a loop that does not end for
\* RequestCap turns only.
IterPage ==
  /\ i_pc = "loop"
  /\ page <= RequestCap
  /\ \E resp \in PageResponses(page) :
       /\ responses' = Append(responses, resp)
       /\ total_pages' = TotalAfter(total_pages, resp)
       /\ yielded' = yielded \o resp.releases
       /\ i_pc' = IF StopsAt(page + 1, max_pages, total_pages')
                    THEN "done" ELSE "loop"
  /\ i_requested' = Append(i_requested, page)
  /\ page' = page + 1
  /\ UNCHANGED max_pages
  /\ UNCHANGED outsideIter

\* api_get raises: the exception leaves the generator.
IterApiError ==
  /\ i_pc = "loop"
  /\ page <= RequestCap
  /\ i_requested' = Append(i_requested, page)
  /\ i_pc' = "raised"
  /\ UNCHANGED <<max_pages, page, total_pages, responses, yielded>>
  /\ UNCHANGED outsideIter

IterNext ==
  \/ IterCall
  \/ IterPage
  \/ IterApiError

-----------------------------------------------------------------------------
(* A CollectionCache object: construction from the file, its operations     *)

\* The cache file: absent, not JSON, a JSON list, or a JSON object with or
\* without "version" and "releases".
File(json, version, u, releases) ==
  [json |-> json, version |-> version, username |-> u, releases |-> releases]

FileMissing == File("missing", None, None, None)

SampleReleases ==
  (1 :> [cached_at |-> 0,
         prices |-> ("USD" :> [lowest_price |-> Some(5),
                               num_for_sale |-> Some(3),
                               fetched_at |-> 0])])

FileContents ==
  {FileMissing, File("unparsable", None, None, None),
   File("list", None, None, None)}
  \cup
  {File("dict", v, Some("alice"), rs) :
     v \in {None, Some(1), Some(2)},
     rs \in {None, Some(<< >>), Some(SampleReleases)}}

\* _load that takes over any JSON object, whatever its version.
_load_any_version(file) ==
  IF file.json = "dict"
    THEN <<[username |-> file.username,
            releases |-> IF file.releases = None
                           THEN << >> ELSE Val(file.releases)],
           file.releases # None>>
    ELSE <<EmptyData(None), TRUE>>

\* CollectionCache.__init__ and _load: (_data, _data has "releases"). Every
\* exception of the load is swallowed and leaves the empty _data.
_load(file) ==
  IF file.json = "dict" /\ file.version = Some(1)
    THEN <<[username |-> file.username,
            releases |-> IF file.releases = None
                           THEN << >> ELSE Val(file.releases)],
           file.releases # None>>
    ELSE <<EmptyData(None), TRUE>>

\* CollectionCache._save: what json.dump writes.
_save(data, intact) ==
  File("dict", Some(1), data.username,
       IF intact THEN Some(data.releases) ELSE None)

\* What a _save may leave on disk: the dump, or, when it fails, the old
\* file or a truncated one.
SaveOutcomes(file, data, intact) ==
  {_save(data, intact), file, File("unparsable", None, None, None)}

\* CollectionCache.clear_prices: _data afterwards (currency None: all).
clear_prices(data, currency) ==
  [data EXCEPT !.releases =
     [r \in DOMAIN data.releases |->
        LET release_data == data.releases[r]
        IN IF currency # None
             THEN [release_data EXCEPT !.prices =
                     [c \in DOMAIN release_data.prices \ {Val(currency)} |->
                        release_data.prices[c]]]
             ELSE [release_data EXCEPT !.prices = << >>]]]

\* The entries set_price is called with: a price with its listings, or none.
PriceArgs == {<<Some(p), Some(n)>> : p \in Prices, n \in ListedCounts}
             \cup {<<None, Some(0)>>}

Op(name, r, c) == [name |-> name, release_id |-> r, currency |-> c]

ObjInit ==
  /\ k_pc = "none"
  /\ k_file = FileMissing
  /\ k_data = EmptyData(None)
  /\ k_intact = TRUE
  /\ k_origin = FileMissing
  /\ k_before = EmptyData(None)
  /\ k_op = Op("", NoReleaseId, None)
  /\ k_raised = FALSE
  /\ k_ops = 0

\* Before the application starts the file is whatever was left there.
ObjFileFound ==
  /\ UNCHANGED outsideObj
  /\ k_pc = "none"
  /\ k_file = FileMissing
  /\ \E file \in FileContents \ {FileMissing} : k_file' = file
  /\ UNCHANGED <<k_pc, k_data, k_intact, k_origin, k_before, k_op, k_raised,
                 k_ops>>

\* CollectionCache(): __init__ and _load.
ObjConstruct ==
  /\ UNCHANGED outsideObj
  /\ k_pc = "none"
  /\ k_data' = _load(k_file)[1]
  /\ k_intact' = _load(k_file)[2]
  /\ k_origin' = k_file
  /\ k_before' = k_data'
  /\ k_op' = Op("__init__", NoReleaseId, None)
  /\ k_pc' = "ready"
  /\ UNCHANGED <<k_file, k_raised, k_ops>>

\* get_price(release_id, currency): KeyError without "releases".
ObjGetPrice ==
  /\ UNCHANGED outsideObj
  /\ k_pc = "ready"
  /\ k_ops < MaxOps
  /\ \E r \in Releases, c \in Currencies : k_op' = Op("get_price", r, Some(c))
  /\ k_raised' = ~k_intact
  /\ k_before' = k_data
  /\ k_ops' = k_ops + 1
  /\ UNCHANGED <<k_pc, k_file, k_data, k_intact, k_origin>>

\* set_price(release_id, currency, lowest_price, num_for_sale): KeyError
\* without "releases".
ObjSetPrice ==
  /\ UNCHANGED outsideObj
  /\ k_pc = "ready"
  /\ k_ops < MaxOps
  /\ \E r \in Releases, c \in Currencies, a \in PriceArgs :
       /\ k_op' = Op("set_price", r, Some(c))
       /\ k_data' = IF k_intact
                      THEN set_price(k_data, r, c, a[1], a[2], now)
                      ELSE k_data
  /\ k_raised' = ~k_intact
  /\ k_before' = k_data
  /\ k_ops' = k_ops + 1
  /\ UNCHANGED <<k_pc, k_file, k_intact, k_origin>>

\* save(): _save swallows every exception.
ObjSave ==
  /\ UNCHANGED outsideObj
  /\ k_pc = "ready"
  /\ k_ops < MaxOps
  /\ \E file \in SaveOutcomes(k_file, k_data, k_intact) : k_file' = file
  /\ k_op' = Op("save", NoReleaseId, None)
  /\ k_raised' = FALSE
  /\ k_before' = k_data
  /\ k_ops' = k_ops + 1
  /\ UNCHANGED <<k_pc, k_data, k_intact, k_origin>>

\* clear_prices(currency), then _save: KeyError without "releases".
ObjClearPrices ==
  /\ UNCHANGED outsideObj
  /\ k_pc = "ready"
  /\ k_ops < MaxOps
  /\ \E currency \in {None} \cup {Some(c) : c \in Currencies} :
       /\ k_op' = Op("clear_prices", NoReleaseId, currency)
       /\ k_data' = IF k_intact THEN clear_prices(k_data, currency) ELSE k_data
       /\ IF k_intact
            THEN \E file \in SaveOutcomes(k_file, k_data', k_intact) :
                   k_file' = file
            ELSE k_file' = k_file
  /\ k_raised' = ~k_intact
  /\ k_before' = k_data
  /\ k_ops' = k_ops + 1
  /\ UNCHANGED <<k_pc, k_intact, k_origin>>

\* set_username(username): a new _data and _save when the name differs.
ObjSetUsername ==
  /\ UNCHANGED outsideObj
  /\ k_pc = "ready"
  /\ k_ops < MaxOps
  /\ \E u \in Users :
       /\ k_op' = Op("set_username", NoReleaseId, None)
       /\ k_data' = set_username(k_data, u)
       /\ IF UsernameDiffers(k_data, u)
            THEN /\ k_intact' = TRUE
                 /\ \E file \in SaveOutcomes(k_file, k_data', TRUE) :
                      k_file' = file
            ELSE UNCHANGED <<k_intact, k_file>>
  /\ k_raised' = FALSE
  /\ k_before' = k_data
  /\ k_ops' = k_ops + 1
  /\ UNCHANGED <<k_pc, k_origin>>

ObjNext ==
  \/ ObjFileFound
  \/ ObjConstruct
  \/ ObjGetPrice
  \/ ObjSetPrice
  \/ ObjSave
  \/ ObjClearPrices
  \/ ObjSetUsername

-----------------------------------------------------------------------------
(* make_sort_keys: strings are sequences of characters                      *)

UpperCase ==
  <<"A", "B", "C", "D", "E", "F", "G", "H", "I", "J", "K", "L", "M",
    "N", "O", "P", "Q", "R", "S", "T", "U", "V", "W", "X", "Y", "Z">>

LowerCase ==
  <<"a", "b", "c", "d", "e", "f", "g", "h", "i", "j", "k", "l", "m",
    "n", "o", "p", "q", "r", "s", "t", "u", "v", "w", "x", "y", "z">>

DigitChars == {"0", "1", "2", "3", "4", "5", "6", "7", "8", "9"}

\* The typographic apostrophe (U+2019) is written ^ here.
TypographicApostrophe == "^"

\* str.lower(), one character
LowerChar(ch) ==
  IF \E i \in 1..26 : UpperCase[i] = ch
    THEN LowerCase[CHOOSE i \in 1..26 : UpperCase[i] = ch]
    ELSE ch

\* str.lower()
lower(s) == [i \in 1..Len(s) |-> LowerChar(s[i])]

IsSpace(ch) == ch = " "

\* str.lstrip(), str.rstrip(), str.strip()
RECURSIVE lstrip(_)
lstrip(s) == IF s # << >> /\ IsSpace(Head(s)) THEN lstrip(Tail(s)) ELSE s

RECURSIVE rstrip(_)
rstrip(s) ==
  IF s # << >> /\ IsSpace(s[Len(s)])
    THEN rstrip(SubSeq(s, 1, Len(s) - 1)) ELSE s

strip(s) == lstrip(rstrip(s))

\* str.rstrip(ch), str.strip(ch) for one character ch
RECURSIVE RstripChar(_, _)
RstripChar(s, ch) ==
  IF s # << >> /\ s[Len(s)] = ch
    THEN RstripChar(SubSeq(s, 1, Len(s) - 1), ch) ELSE s

RECURSIVE LstripChar(_, _)
LstripChar(s, ch) ==
  IF s # << >> /\ Head(s) = ch THEN LstripChar(Tail(s), ch) ELSE s

StripChar(s, ch) == LstripChar(RstripChar(s, ch), ch)

\* str.startswith(prefix), str.endswith(suffix)
startswith(s, prefix) ==
  Len(prefix) <= Len(s) /\ SubSeq(s, 1, Len(prefix)) = prefix

endswith(s, suffix) ==
  /\ Len(suffix) <= Len(s)
  /\ SubSeq(s, Len(s) - Len(suffix) + 1, Len(s)) = suffix

\* s[n:]
From(s, n) == SubSeq(s, n + 1, Len(s))

\* re.split(r"[/,]", s)[0], s.split('/')[0].split(',')[0]: the part before
\* the first separator
BeforeFirst(s, separators) ==
  LET at == {i \in 1..Len(s) : s[i] \in separators}
  IN IF at = {} THEN s
     ELSE SubSeq(s, 1, (CHOOSE i \in at : \A j \in at : i <= j) - 1)

\* [t for t in re.split(r"\s+", s) if t]
RECURSIVE Tokens(_)
Tokens(s) ==
  LET t == lstrip(s)
      word == BeforeFirst(t, {" "})
  IN IF t = << >> THEN << >>
     ELSE <<word>> \o Tokens(From(t, Len(word)))

\* " ".join(words)
RECURSIVE JoinWords(_)
JoinWords(words) ==
  IF words = << >> THEN << >>
  ELSE IF Len(words) = 1 THEN words[1]
  ELSE words[1] \o <<" ">> \o JoinWords(Tail(words))

\* TRAILING_NUMERIC_RE matches: the string ends with ( digits ).
NumericSuffixAt(name) ==
  {k \in 1..Len(name) :
     /\ name[k] = "("
     /\ name[Len(name)] = ")"
     /\ k + 1 <= Len(name) - 1
     /\ \A i \in (k + 1)..(Len(name) - 1) : name[i] \in DigitChars}

\* strip_discogs_numeric_suffix
strip_discogs_numeric_suffix(name) ==
  IF NumericSuffixAt(name) = {} THEN strip(name)
  ELSE LET k == CHOOSE i \in NumericSuffixAt(name) : TRUE
       IN strip(rstrip(SubSeq(name, 1, k - 1)))

\* discogs_app.normalize_apostrophes
normalize_apostrophes(s) ==
  [i \in 1..Len(s) |-> IF s[i] = TypographicApostrophe THEN "'" ELSE s[i]]

\* core.sorting.normalize_apostrophes: replaces "'" by "'"
sorting_normalize_apostrophes(s) ==
  [i \in 1..Len(s) |-> IF s[i] = "'" THEN "'" ELSE s[i]]

\* _normalize_exclude_name
_normalize_exclude_name(s) == JoinWords(Tokens(lower(s)))

band_adjectives ==
  {
    <<"b", "i", "g">>, <<"s", "m", "a", "l", "l">>,
    <<"l", "i", "t", "t", "l", "e">>, <<"b", "a", "d">>,
    <<"g", "o", "o", "d">>, <<"g", "r", "e", "a", "t">>, <<"n", "e", "w">>,
    <<"o", "l", "d">>, <<"y", "o", "u", "n", "g">>,
    <<"b", "l", "a", "c", "k">>, <<"w", "h", "i", "t", "e">>,
    <<"b", "l", "u", "e">>, <<"r", "e", "d">>, <<"g", "r", "e", "e", "n">>,
    <<"w", "i", "l", "d">>, <<"s", "w", "e", "e", "t">>
  }

band_terms ==
  {
    <<"b", "a", "n", "d">>, <<"t", "r", "i", "o">>,
    <<"q", "u", "a", "r", "t", "e", "t">>,
    <<"q", "u", "i", "n", "t", "e", "t">>, <<"s", "e", "x", "t", "e", "t">>,
    <<"s", "e", "p", "t", "e", "t">>, <<"o", "c", "t", "e", "t">>,
    <<"n", "o", "n", "e", "t">>,
    <<"o", "r", "c", "h", "e", "s", "t", "r", "a">>,
    <<"e", "n", "s", "e", "m", "b", "l", "e">>, <<"c", "h", "o", "i", "r">>,
    <<"c", "h", "o", "r", "a", "l", "e">>,
    <<"c", "o", "l", "l", "e", "c", "t", "i", "v", "e">>,
    <<"p", "r", "o", "j", "e", "c", "t">>, <<"g", "r", "o", "u", "p">>,
    <<"c", "r", "e", "w">>, <<"p", "l", "a", "y", "e", "r", "s">>,
    <<"b", "r", "o", "t", "h", "e", "r", "s">>,
    <<"s", "i", "s", "t", "e", "r", "s">>, <<"f", "a", "m", "i", "l", "y">>,
    <<"e", "x", "p", "e", "r", "i", "e", "n", "c", "e">>
  }

common_first_names ==
  {
    <<"j", "o", "h", "n">>, <<"j", "a", "m", "e", "s">>,
    <<"m", "i", "c", "h", "a", "e", "l">>, <<"r", "o", "b", "e", "r", "t">>,
    <<"d", "a", "v", "i", "d">>, <<"w", "i", "l", "l", "i", "a", "m">>,
    <<"r", "i", "c", "h", "a", "r", "d">>, <<"t", "h", "o", "m", "a", "s">>,
    <<"c", "h", "a", "r", "l", "e", "s">>, <<"j", "o", "s", "e", "p", "h">>,
    <<"c", "h", "r", "i", "s", "t", "o", "p", "h", "e", "r">>,
    <<"d", "a", "n", "i", "e", "l">>, <<"p", "a", "u", "l">>,
    <<"m", "a", "r", "k">>, <<"d", "o", "n", "a", "l", "d">>,
    <<"g", "e", "o", "r", "g", "e">>, <<"k", "e", "n", "n", "e", "t", "h">>,
    <<"s", "t", "e", "v", "e", "n">>, <<"e", "d", "w", "a", "r", "d">>,
    <<"b", "r", "i", "a", "n">>, <<"r", "o", "n", "a", "l", "d">>,
    <<"a", "n", "t", "h", "o", "n", "y">>, <<"k", "e", "v", "i", "n">>,
    <<"j", "a", "s", "o", "n">>, <<"m", "a", "t", "t", "h", "e", "w">>,
    <<"g", "a", "r", "y">>, <<"t", "i", "m", "o", "t", "h", "y">>,
    <<"j", "o", "s", "e">>, <<"l", "a", "r", "r", "y">>,
    <<"j", "e", "f", "f", "r", "e", "y">>, <<"f", "r", "a", "n", "k">>,
    <<"s", "c", "o", "t", "t">>, <<"e", "r", "i", "c">>,
    <<"s", "t", "e", "p", "h", "e", "n">>, <<"a", "n", "d", "r", "e", "w">>,
    <<"r", "a", "y", "m", "o", "n", "d">>,
    <<"g", "r", "e", "g", "o", "r", "y">>, <<"j", "o", "s", "h", "u", "a">>,
    <<"j", "e", "r", "r", "y">>, <<"d", "e", "n", "n", "i", "s">>,
    <<"w", "a", "l", "t", "e", "r">>, <<"p", "a", "t", "r", "i", "c", "k">>,
    <<"p", "e", "t", "e", "r">>, <<"h", "a", "r", "o", "l", "d">>,
    <<"d", "o", "u", "g", "l", "a", "s">>, <<"h", "e", "n", "r", "y">>,
    <<"c", "a", "r", "l">>, <<"a", "r", "t", "h", "u", "r">>,
    <<"r", "y", "a", "n">>, <<"r", "o", "g", "e", "r">>, <<"j", "o", "e">>,
    <<"j", "u", "a", "n">>, <<"j", "a", "c", "k">>,
    <<"a", "l", "b", "e", "r", "t">>,
    <<"j", "o", "n", "a", "t", "h", "a", "n">>,
    <<"j", "u", "s", "t", "i", "n">>, <<"t", "e", "r", "r", "y">>,
    <<"g", "e", "r", "a", "l", "d">>, <<"k", "e", "i", "t", "h">>,
    <<"s", "a", "m", "u", "e", "l">>, <<"w", "i", "l", "l", "i", "e">>,
    <<"r", "a", "l", "p", "h">>, <<"l", "a", "w", "r", "e", "n", "c", "e">>,
    <<"n", "i", "c", "h", "o", "l", "a", "s">>, <<"r", "o", "y">>,
    <<"b", "e", "n", "j", "a", "m", "i", "n">>, <<"b", "r", "u", "c", "e">>,
    <<"b", "r", "a", "n", "d", "o", "n">>, <<"a", "d", "a", "m">>,
    <<"h", "a", "r", "r", "y">>, <<"f", "r", "e", "d">>,
    <<"w", "a", "y", "n", "e">>, <<"b", "i", "l", "l", "y">>,
    <<"s", "t", "e", "v", "e">>, <<"l", "o", "u", "i", "s">>,
    <<"j", "e", "r", "e", "m", "y">>, <<"a", "a", "r", "o", "n">>,
    <<"r", "a", "n", "d", "y">>, <<"h", "o", "w", "a", "r", "d">>,
    <<"e", "u", "g", "e", "n", "e">>, <<"c", "a", "r", "l", "o", "s">>,
    <<"r", "u", "s", "s", "e", "l", "l">>, <<"b", "o", "b", "b", "y">>,
    <<"v", "i", "c", "t", "o", "r">>, <<"m", "a", "r", "t", "i", "n">>,
    <<"e", "r", "n", "e", "s", "t">>, <<"p", "h", "i", "l", "l", "i", "p">>,
    <<"t", "o", "d", "d">>, <<"j", "e", "s", "s", "e">>,
    <<"c", "r", "a", "i", "g">>, <<"a", "l", "a", "n">>,
    <<"s", "h", "a", "w", "n">>, <<"c", "l", "a", "r", "e", "n", "c", "e">>,
    <<"s", "e", "a", "n">>, <<"p", "h", "i", "l", "i", "p">>,
    <<"c", "h", "r", "i", "s">>, <<"j", "o", "h", "n", "n", "y">>,
    <<"e", "a", "r", "l">>, <<"j", "i", "m", "m", "y">>,
    <<"a", "n", "t", "o", "n", "i", "o">>, <<"d", "a", "n", "n", "y">>,
    <<"b", "r", "y", "a", "n">>, <<"t", "o", "n", "y">>,
    <<"l", "u", "i", "s">>, <<"m", "i", "l", "e", "s">>,
    <<"n", "e", "i", "l">>, <<"n", "i", "c", "k">>, <<"l", "o", "u">>,
    <<"c", "h", "u", "c", "k">>, <<"i", "a", "n">>, <<"a", "l", "e", "x">>,
    <<"n", "o", "e", "l">>
  }

particles ==
  {
    <<"d", "e">>, <<"d", "e", "l">>, <<"v", "a", "n">>, <<"v", "o", "n">>,
    <<"d", "a">>, <<"d", "i">>, <<"l", "a">>, <<"l", "e">>, <<"d", "u">>,
    <<"d", "o">>, <<"d", "o", "s">>, <<"d", "a", "s">>, <<"s", "t">>
  }

NotNames == {<<"t", "h", "e">>, <<"a", "n", "d">>, <<"&">>}

\* is_band_like
is_band_like(first, last) ==
  LET first_low == lower(first)
      last_low == lower(last)
  IN \/ last_low \in band_terms
     \/ endswith(last_low, <<"s">>) /\ first_low \notin common_first_names
     \/ first_low \in band_adjectives /\ last_low \notin common_first_names

\* re.match(r"[A-Za-z'\-]+$", t)
MatchesNameToken(t) ==
  /\ t # << >>
  /\ \A i \in 1..Len(t) :
       \/ \E k \in 1..26 : t[i] = UpperCase[k] \/ t[i] = LowerCase[k]
       \/ t[i] \in {"'", "-"}

\* is_valid_two_word without the test for the, and, &.
is_valid_two_word_any_word(tokens) ==
  \A i \in 1..Len(tokens) : MatchesNameToken(tokens[i])

\* is_valid_two_word
is_valid_two_word(tokens) ==
  /\ \A i \in 1..Len(tokens) : MatchesNameToken(tokens[i])
  /\ ~\E i \in 1..Len(tokens) : lower(tokens[i]) \in NotNames

\* flip_three_word: None or "last, first middle" in lower case
flip_three_word(tokens) ==
  LET first == tokens[1]
      middle == tokens[2]
      last == tokens[3]
      middle_norm == StripChar(lower(middle), ".")
  IN IF lower(first) \in NotNames THEN None
     ELSE IF \/ Len(middle_norm) = 1
             \/ endswith(middle, <<".">>)
             \/ middle_norm \in particles
       THEN Some(lower(last \o <<",", " ">> \o first \o <<" ">> \o middle))
     ELSE None

\* _last_name_first_key: None or the key
_last_name_first_key(artist_clean, allow_3, exclude_set, safe_bands) ==
  LET norm == _normalize_exclude_name(artist_clean)
      first_artist == strip(BeforeFirst(artist_clean, {"/", ","}))
      tokens == Tokens(first_artist)
  IN IF norm \in exclude_set THEN None
     ELSE IF Len(tokens) = 2
       THEN IF safe_bands /\ is_band_like(tokens[1], tokens[2]) THEN None
            ELSE IF ~is_valid_two_word(tokens) THEN None
            ELSE Some(lower(tokens[2] \o <<",", " ">> \o tokens[1]))
     ELSE IF allow_3 /\ Len(tokens) = 3 THEN flip_three_word(tokens)
     ELSE Some(lower(first_artist))

\* strip_articles: the list of articles it tries, in order
ArticleList(extra_articles) ==
  <<<<"t", "h", "e">>, <<"a">>, <<"a", "n">>>>
  \o [i \in 1..Len(SelectSeq(extra_articles, LAMBDA a : strip(a) # << >>)) |->
        lower(strip(SelectSeq(extra_articles,
                              LAMBDA a : strip(a) # << >>)[i]))]

\* strip_articles: the for loop over the articles, from the k-th on
RECURSIVE StripFrom(_, _, _)
StripFrom(t, articles, k) ==
  IF k > Len(articles) THEN t
  ELSE LET art == RstripChar(articles[k], "'")
           low == lower(t)
       IN IF startswith(low, art \o <<" ">>)
            THEN strip(From(t, Len(art) + 1))
          ELSE IF art # << >> /\ startswith(low, art \o <<"'">>)
            THEN strip(From(t, Len(art) + 1))
          ELSE StripFrom(t, articles, k + 1)

\* discogs_app.make_sort_keys.strip_articles
strip_articles(text, extra_articles) ==
  IF text = << >> THEN << >>
  ELSE StripFrom(strip(normalize_apostrophes(text)),
                 ArticleList(extra_articles), 1)

\* core.sorting.make_sort_keys.strip_articles
sorting_strip_articles(text, extra_articles) ==
  IF text = << >> THEN << >>
  ELSE StripFrom(strip(sorting_normalize_apostrophes(text)),
                 ArticleList(extra_articles), 1)

\* if flipped: a key that is neither None nor empty
Flipped(flipped) == flipped # None /\ Val(flipped) # << >>

\* The end of make_sort_keys: the flipped key when there is one.
KeysOf(artist_clean, sort_artist_base, sort_title, a) ==
  LET flipped == _last_name_first_key(artist_clean, a.lnf_allow_3,
                                      a.lnf_exclude, a.lnf_safe_bands)
  IN <<IF a.last_name_first /\ Flipped(flipped)
         THEN Val(flipped) ELSE sort_artist_base,
       sort_title>>

\* discogs_app.make_sort_keys: (sort_artist, sort_title)
make_sort_keys(a) ==
  LET artist_clean == strip(strip_discogs_numeric_suffix(a.artist_display))
  IN KeysOf(artist_clean,
            lower(strip_articles(artist_clean, a.extra_articles)),
            lower(strip_articles(a.title, a.extra_articles)), a)

\* core.sorting.make_sort_keys: (sort_artist, sort_title)
sorting_make_sort_keys(a) ==
  LET artist_first ==
        strip(BeforeFirst(BeforeFirst(a.artist_display, {"/"}), {","}))
      artist_clean == strip(strip_discogs_numeric_suffix(artist_first))
  IN KeysOf(artist_clean,
            lower(sorting_strip_articles(artist_clean, a.extra_articles)),
            lower(sorting_strip_articles(a.title, a.extra_articles)), a)

\* ---- the strings make_sort_keys is called with

TheBeatles ==
  <<"T", "h", "e", " ", "B", "e", "a", "t", "l", "e", "s">>

TheRollingStones ==
  <<"T", "h", "e", " ", "R", "o", "l", "l", "i", "n", "g", " ", "S", "t",
  "o", "n", "e", "s">>

MilesDavis ==
  <<"M", "i", "l", "e", "s", " ", "D", "a", "v", "i", "s">>

TheloniousMonk ==
  <<"T", "h", "e", "l", "o", "n", "i", "o", "u", "s", " ", "M", "o", "n",
  "k">>

JeanMichelJarre ==
  <<"J", "e", "a", "n", "-", "M", "i", "c", "h", "e", "l", " ", "J", "a",
  "r", "r", "e">>

BeachBoys ==
  <<"B", "e", "a", "c", "h", " ", "B", "o", "y", "s">>

BoxTops ==
  <<"B", "o", "x", " ", "T", "o", "p", "s">>

BigStar ==
  <<"B", "i", "g", " ", "S", "t", "a", "r">>

FineYoungCannibals ==
  <<"F", "i", "n", "e", " ", "Y", "o", "u", "n", "g", " ", "C", "a", "n",
  "n", "i", "b", "a", "l", "s">>

LudwigVanBeethoven ==
  <<"L", "u", "d", "w", "i", "g", " ", "v", "a", "n", " ", "B", "e", "e",
  "t", "h", "o", "v", "e", "n">>

HallAndOates ==
  <<"H", "a", "l", "l", " ", "&", " ", "O", "a", "t", "e", "s">>

BookerTJones ==
  <<"B", "o", "o", "k", "e", "r", " ", "T", ".", " ", "J", "o", "n", "e",
  "s">>

PhilipKDick ==
  <<"P", "h", "i", "l", "i", "p", " ", "K", " ", "D", "i", "c", "k">>

MilesDavisJohnColtrane ==
  <<"M", "i", "l", "e", "s", " ", "D", "a", "v", "i", "s", " ", "/", " ",
  "J", "o", "h", "n", " ", "C", "o", "l", "t", "r", "a", "n", "e">>

BoxTopsBigStar ==
  <<"B", "o", "x", " ", "T", "o", "p", "s", ",", " ", "B", "i", "g", " ",
  "S", "t", "a", "r">>

MilesDavis2 ==
  <<"M", "i", "l", "e", "s", " ", "D", "a", "v", "i", "s", " ", "(", "2",
  ")">>

DestinysChild ==
  <<"D", "e", "s", "t", "i", "n", "y", "^", "s", " ", "C", "h", "i", "l",
  "d">>

LosLobos ==
  <<"L", "o", "s", " ", "L", "o", "b", "o", "s">>

Abba ==
  <<"A", "B", "B", "A">>

ArtistDisplays ==
  {TheBeatles, TheRollingStones, MilesDavis, TheloniousMonk,
   JeanMichelJarre, BeachBoys, BoxTops, BigStar, FineYoungCannibals,
   LudwigVanBeethoven, HallAndOates, BookerTJones, PhilipKDick,
   MilesDavisJohnColtrane, BoxTopsBigStar, MilesDavis2, DestinysChild,
   LosLobos, Abba}

TitleX == <<"X">>

TheWall ==
  <<"T", "h", "e", " ", "W", "a", "l", "l">>

Titles == {TitleX, TheWall}

ExtraArticleLists == {<< >>, <<<<"L", "o", "s">>>>}

ExcludeSets == {{}, {<<"m", "i", "l", "e", "s", " ", "d", "a", "v", "i", "s">>}}

Args(artist_display, title, extra_articles, last_name_first, lnf_allow_3, lnf_exclude, lnf_safe_bands) ==
  [artist_display |-> artist_display, title |-> title,
   extra_articles |-> extra_articles, last_name_first |-> last_name_first,
   lnf_allow_3 |-> lnf_allow_3, lnf_exclude |-> lnf_exclude,
   lnf_safe_bands |-> lnf_safe_bands]

KeysInit ==
  /\ s_pc = "idle"
  /\ s_args = Args(<< >>, << >>, << >>, FALSE, FALSE, {}, FALSE)
  /\ s_keys = None
  /\ s_core_keys = None

\* A row is built: the arguments of make_sort_keys.
SortKeysCall ==
  /\ UNCHANGED outsideKeys
  /\ s_pc = "idle"
  /\ \E artist_display \in ArtistDisplays, title \in Titles,
        extra_articles \in ExtraArticleLists, lnf_exclude \in ExcludeSets,
        last_name_first \in BOOLEAN, lnf_allow_3 \in BOOLEAN,
        lnf_safe_bands \in BOOLEAN :
       s_args' = Args(artist_display, title, extra_articles, last_name_first,
                      lnf_allow_3, lnf_exclude, lnf_safe_bands)
  /\ s_pc' = "called"
  /\ UNCHANGED <<s_keys, s_core_keys>>

\* discogs_app.make_sort_keys returns.
SortKeysApp ==
  /\ UNCHANGED outsideKeys
  /\ s_pc = "called"
  /\ s_keys = None
  /\ s_keys' = Some(make_sort_keys(s_args))
  /\ UNCHANGED <<s_pc, s_args, s_core_keys>>

\* core.sorting.make_sort_keys returns.
SortKeysCore ==
  /\ UNCHANGED outsideKeys
  /\ s_pc = "called"
  /\ s_core_keys = None
  /\ s_core_keys' = Some(sorting_make_sort_keys(s_args))
  /\ UNCHANGED <<s_pc, s_args, s_keys>>

KeysNext ==
  \/ SortKeysCall
  \/ SortKeysApp
  \/ SortKeysCore

-----------------------------------------------------------------------------
(* is_lp_33 and collect_lp_rows                                             *)

\* sub in s
In(sub, s) ==
  \E i \in 1..(Len(s) - Len(sub) + 1) : SubSeq(s, i, i + Len(sub) - 1) = sub

\* s.replace(ch, '') for every ch of chars
Without(s, chars) == SelectSeq(s, LAMBDA ch : ch \notin chars)

\* U+201D, the typographic double quote of discogs_app's size_tokens
TypographicQuote == "~"

\* t.replace('.', '').replace(' ', '') for t in descs
NormTokens(descs) == {Without(t, {".", " "}) : t \in descs}

_desc_set_has_33rpm(descs) ==
  LET norm_tokens == NormTokens(descs)
      has_combined ==
        \E t \in norm_tokens : In(<<"3", "3">>, t) /\ In(<<"r", "p", "m">>, t)
      has_33 == \E t \in norm_tokens : In(<<"3", "3">>, t)
      has_rpm ==
        \E t \in norm_tokens :
          t = <<"r", "p", "m">> \/ endswith(t, <<"r", "p", "m">>)
      has_lp_hint ==
        \E t \in norm_tokens : t \in {<<"l", "p">>, <<"a", "l", "b", "u", "m">>}
  IN IF descs = {} THEN FALSE
     ELSE IF has_combined THEN TRUE
     ELSE has_33 /\ (has_rpm \/ has_lp_hint)

\* [f for f in formats if (f.get("name") or "").strip().lower() == "vinyl"]
vinyl_formats(basic) ==
  SelectSeq(basic.formats,
            LAMBDA f : lower(strip(f.name)) = <<"v", "i", "n", "y", "l">>)

\* {d.strip().lower() for d in descriptions if d} of every Vinyl entry
desc_sets(basic) ==
  {{lower(strip(d)) : d \in {x \in f.descriptions : x # << >>}} :
     f \in Range(vinyl_formats(basic))}

has_lp_or_album(s) == <<"l", "p">> \in s \/ <<"a", "l", "b", "u", "m">> \in s

has_45_or_78(s) ==
  LET norm == NormTokens(s)
  IN (\E t \in norm : In(<<"4", "5">>, t)) \/ (\E t \in norm : In(<<"7", "8">>, t))

\* size_tokens of discogs_app.py and of core/sorting.py
size_tokens ==
  {<<"1", "2", "\"">>, <<"1", "2", TypographicQuote>>, <<"1", "2", "i", "n">>,
   <<"1", "2", "-", "i", "n", "c", "h">>}

sorting_size_tokens ==
  {<<"1", "2", "\"">>, <<"1", "2", "i", "n">>,
   <<"1", "2", "-", "i", "n", "c", "h">>}

\* The three policies, over the description sets of the Vinyl entries.
LpPolicy(sets, sizes, strict, probable) ==
  IF strict
    THEN \E s \in sets : has_lp_or_album(s) /\ _desc_set_has_33rpm(s)
  ELSE IF probable
    THEN \E s \in sets : has_lp_or_album(s) /\ ~has_45_or_78(s)
  ELSE \E s \in sets :
         has_lp_or_album(s) \/ (_desc_set_has_33rpm(s) /\ s \cap sizes # {})

\* A strict policy that asks for no evidence of 33 RPM.
is_lp_33_strict_without_rpm(basic, strict, probable) ==
  LpPolicy(desc_sets(basic), size_tokens, FALSE, ~strict /\ probable)

\* A probable policy that does not look for 45 or 78.
is_lp_33_probable_as_default(basic, strict, probable) ==
  LpPolicy(desc_sets(basic), size_tokens, strict, FALSE)

\* discogs_app.is_lp_33
is_lp_33(basic, strict, probable) ==
  LpPolicy(desc_sets(basic), size_tokens, strict, probable)

\* core.sorting.is_lp_33
sorting_is_lp_33(basic, strict, probable) ==
  LpPolicy(desc_sets(basic), sorting_size_tokens, strict, probable)

\* ---- the inputs: format names and descriptions as Discogs writes them
Vinyl == <<"V", "i", "n", "y", "l">>
VinylSpaced == <<" ", "v", "i", "n", "y", "l", " ">>
CD == <<"C", "D">>
DescLP == <<"L", "P">>
DescAlbum == <<"A", "l", "b", "u", "m">>
Desc45RPM == <<"4", "5", " ", "R", "P", "M">>
Desc78RPM == <<"7", "8", " ", "R", "P", "M">>
Desc33RPM == <<"3", "3", " ", "R", "P", "M">>
Desc33 == <<"3", "3", " ", "1", "/", "3">>
DescRPM == <<"R", "P", "M">>
Desc12Inch == <<"1", "2", "\"">>
DescStereo == <<"S", "t", "e", "r", "e", "o">>
Desc7Inch == <<"7", "\"">>
DescSingle == <<"S", "i", "n", "g", "l", "e">>

Descriptions ==
  {DescLP, DescAlbum, Desc45RPM, Desc78RPM, Desc33RPM, Desc33, DescRPM,
   Desc12Inch, DescStereo}

Format(name, descriptions) == [name |-> name, descriptions |-> descriptions]

\* One format entry: a name, at most three descriptions.
FormatEntries ==
  {Format(name, ds) : name \in {Vinyl, CD},
                      ds \in {d \in SUBSET Descriptions : Cardinality(d) <= 3}}

\* The second entry of a release with two formats.
SecondEntries ==
  {Format(VinylSpaced, {DescLP}), Format(Vinyl, {DescLP, Desc45RPM}),
   Format(Vinyl, {Desc12Inch, Desc33RPM}), Format(CD, {DescAlbum}),
   Format(Vinyl, {})}

Basic(formats) == [formats |-> formats]

Basics ==
  {Basic(<< >>)}
    \cup {Basic(<<f>>) : f \in FormatEntries}
    \cup {Basic(<<f, g>>) : f \in FormatEntries, g \in SecondEntries}

\* The items of a collection: None is an item without basic_information.
CollectionItems ==
  {None,
   Some(Basic(<< >>)),
   Some(Basic(<<Format(CD, {DescAlbum})>>)),
   Some(Basic(<<Format(Vinyl, {DescLP})>>)),
   Some(Basic(<<Format(Vinyl, {DescLP, Desc45RPM})>>)),
   Some(Basic(<<Format(Vinyl, {DescAlbum, Desc78RPM})>>)),
   Some(Basic(<<Format(Vinyl, {Desc7Inch, DescSingle, Desc45RPM})>>))}

LpInit ==
  /\ l_pc = "idle"
  /\ l_args = [basic |-> Basic(<< >>), strict |-> FALSE, probable |-> FALSE]
  /\ l_result = None
  /\ l_core_result = None

LpCollectInit ==
  /\ c_pc = "idle"
  /\ c_args = [lp_strict |-> FALSE, lp_probable |-> FALSE,
               collect_exclusions |-> FALSE]
  /\ c_seen = << >>
  /\ c_rows = << >>
  /\ c_excluded_probable = << >>
  /\ c_result = None

\* is_lp_33 is called on a release.
LpCall ==
  /\ UNCHANGED outsideLp
  /\ l_pc = "idle"
  /\ \E basic \in Basics, strict \in BOOLEAN, probable \in BOOLEAN :
       l_args' = [basic |-> basic, strict |-> strict, probable |-> probable]
  /\ l_pc' = "called"
  /\ UNCHANGED <<l_result, l_core_result>>

\* discogs_app.is_lp_33 returns.
LpApp ==
  /\ UNCHANGED outsideLp
  /\ l_pc = "called"
  /\ l_result = None
  /\ l_result' = Some(is_lp_33(l_args.basic, l_args.strict, l_args.probable))
  /\ UNCHANGED <<l_pc, l_args, l_core_result>>

\* core.sorting.is_lp_33 returns.
LpCore ==
  /\ UNCHANGED outsideLp
  /\ l_pc = "called"
  /\ l_core_result = None
  /\ l_core_result' =
       Some(sorting_is_lp_33(l_args.basic, l_args.strict, l_args.probable))
  /\ UNCHANGED <<l_pc, l_args, l_result>>

\* collect_lp_rows is called: empty rows, empty excluded_probable.
LpCollectStart ==
  /\ UNCHANGED outsideCollect
  /\ c_pc = "idle"
  /\ \E lp_strict \in BOOLEAN, lp_probable \in BOOLEAN,
        collect_exclusions \in BOOLEAN :
       c_args' = [lp_strict |-> lp_strict, lp_probable |-> lp_probable,
                  collect_exclusions |-> collect_exclusions]
  /\ c_pc' = "iterating"
  /\ UNCHANGED <<c_seen, c_rows, c_excluded_probable, c_result>>

\* process_item on the next item of iterate_collection: an item without
\* basic_information is passed over; a release that is_lp_33 rejects goes to
\* track_exclusion; the others become rows (a row is written as its basic).
LpProcessItem ==
  /\ UNCHANGED outsideCollect
  /\ c_pc = "iterating"
  /\ Len(c_seen) < MaxItems
  /\ \E item \in CollectionItems :
       /\ c_seen' = Append(c_seen, item)
       /\ IF item = None
            THEN UNCHANGED <<c_rows, c_excluded_probable>>
          ELSE IF ~is_lp_33(Val(item), c_args.lp_strict, c_args.lp_probable)
            THEN /\ c_excluded_probable' =
                      IF /\ c_args.collect_exclusions
                         /\ c_args.lp_probable
                         /\ ~c_args.lp_strict
                        THEN Append(c_excluded_probable, Val(item))
                        ELSE c_excluded_probable
                 /\ UNCHANGED c_rows
          ELSE /\ c_rows' = Append(c_rows, Val(item))
               /\ UNCHANGED c_excluded_probable
  /\ UNCHANGED <<c_pc, c_args, c_result>>

\* collect_lp_rows returns rows, with excluded_probable_basics attached when
\* the exclusions were collected.
LpCollectReturn ==
  /\ UNCHANGED outsideCollect
  /\ c_pc = "iterating"
  /\ c_result' =
       Some([rows |-> c_rows,
             excluded_probable_basics |->
               IF /\ c_args.collect_exclusions
                  /\ c_args.lp_probable
                  /\ ~c_args.lp_strict
                 THEN Some(c_excluded_probable) ELSE None])
  /\ c_pc' = "returned"
  /\ UNCHANGED <<c_args, c_seen, c_rows, c_excluded_probable>>

LpNext ==
  \/ LpCall
  \/ LpApp
  \/ LpCore

LpCollectNext ==
  \/ LpCollectStart
  \/ LpProcessItem
  \/ LpCollectReturn

-----------------------------------------------------------------------------
(* sort_rows                                                                *)

\* A row with a price (None: no price known).
PricedAt(row, price) == [row EXCEPT !.lowest_price = price]

\* The rows to sort: two Various rows, a Various Artists row, rows of three
\* artists; prices known, zero and unknown.
SortSamples ==
  {PricedAt(NewRow(1, "Miles Davis", 2, 1, Some(1959)), Some(5)),
   PricedAt(NewRow(2, "Miles Davis", 2, 2, Some(1970)), None),
   PricedAt(NewRow(3, "Various", 4, 1, None), None),
   PricedAt(NewRow(4, "Various", 4, 3, Some(1999)), Some(3)),
   PricedAt(NewRow(5, "Various Artists", 5, 2, Some(2000)), Some(5)),
   PricedAt(NewRow(6, "ABBA", 1, 3, Some(1976)), Some(3)),
   PricedAt(NewRow(NoReleaseId, "Frank Zappa", 6, 1, Some(1969)), Some(0))}

RECURSIVE SeqsUpTo(_, _)
SeqsUpTo(S, n) ==
  IF n = 0 THEN {<< >>}
  ELSE LET shorter == SeqsUpTo(S, n - 1)
       IN shorter \cup {Append(s, x) : s \in shorter, x \in S}

VariousPolicies == {"normal", "last", "title"}

SortFields == {"artist", "title", "price_asc", "price_desc", "year"}

SortInit ==
  /\ t_pc = "idle"
  /\ t_args = [rows |-> << >>, various_policy |-> "normal",
               sort_by |-> "artist"]
  /\ t_result = None

\* sort_rows is called.
SortCall ==
  /\ UNCHANGED outsideSort
  /\ t_pc = "idle"
  /\ \E rs \in SeqsUpTo(SortSamples, MaxSortRows),
        various_policy \in VariousPolicies, sort_by \in SortFields :
       t_args' = [rows |-> rs, various_policy |-> various_policy,
                  sort_by |-> sort_by]
  /\ t_pc' = "called"
  /\ UNCHANGED t_result

\* sort_rows returns the sorted list.
SortReturn ==
  /\ UNCHANGED outsideSort
  /\ t_pc = "called"
  /\ t_result' = Some(sort_rows(t_args.rows, t_args.various_policy,
                                t_args.sort_by))
  /\ t_pc' = "returned"
  /\ UNCHANGED t_args

SortNext ==
  \/ SortCall
  \/ SortReturn

-----------------------------------------------------------------------------
(* ManualOrderManager                                                       *)

\* ManualOrderManager.__init__ with no order file: the part of _data that
\* apply_order reads.
NoManualOrder == [order |-> << >>, enabled |-> FALSE]

\* The orders set_order may be given: release ids of the tree, top to bottom.
ManualOrders == SeqsUpTo({1, 2, 3}, 2)

\* The rows apply_order may be given; RowA and RowA2 share a release_id, RowN
\* has none.
OrderRowLists == SeqsUpTo({RowA, RowA2, RowB, RowN}, MaxSortRows)

\* {r.release_id: r for r in rows if r.release_id}[rid]: the last such row
row_by_id(rs, rid) ==
  LET at == {i \in 1..Len(rs) : rs[i].release_id = rid}
  IN rs[CHOOSE i \in at : \A j \in at : j <= i]

HasRowWithId(rs, rid) ==
  rid # NoReleaseId /\ \E i \in 1..Len(rs) : rs[i].release_id = rid

\* The loop over the manual order: <<ordered, seen_ids>>
RECURSIVE AddInManualOrder(_, _, _, _)
AddInManualOrder(order, rs, ordered, seen_ids) ==
  IF order = << >> THEN <<ordered, seen_ids>>
  ELSE LET rid == Head(order)
       IN IF HasRowWithId(rs, rid) /\ rid \notin seen_ids
            THEN AddInManualOrder(Tail(order), rs,
                                  Append(ordered, row_by_id(rs, rid)),
                                  seen_ids \cup {rid})
            ELSE AddInManualOrder(Tail(order), rs, ordered, seen_ids)

\* The loop that appends the rows that are not in the manual order.
RECURSIVE AppendNewItems(_, _, _)
AppendNewItems(rest, ordered, seen_ids) ==
  IF rest = << >> THEN ordered
  ELSE LET row == Head(rest)
       IN IF row.release_id # NoReleaseId /\ row.release_id \notin seen_ids
            THEN AppendNewItems(Tail(rest), Append(ordered, row),
                                seen_ids \cup {row.release_id})
          ELSE IF row.release_id = NoReleaseId
            THEN AppendNewItems(Tail(rest), Append(ordered, row), seen_ids)
          ELSE AppendNewItems(Tail(rest), ordered, seen_ids)

apply_order(data, rs) ==
  IF ~data.enabled THEN rs
  ELSE IF data.order = << >> THEN rs
  ELSE LET placed == AddInManualOrder(data.order, rs, << >>, {})
       IN AppendNewItems(rs, placed[1], placed[2])

ManualInit ==
  /\ m_data = NoManualOrder
  /\ m_call = [data |-> NoManualOrder, rows |-> << >>]
  /\ m_result = None

\* set_order: the user has dragged a row.
ManualSetOrder ==
  /\ UNCHANGED outsideManual
  /\ \E release_ids \in ManualOrders :
       m_data' = [order |-> release_ids, enabled |-> TRUE]
  /\ UNCHANGED <<m_call, m_result>>

\* set_enabled: the manual-order checkbox.
ManualSetEnabled ==
  /\ UNCHANGED outsideManual
  /\ \E enabled \in BOOLEAN : m_data' = [m_data EXCEPT !.enabled = enabled]
  /\ UNCHANGED <<m_call, m_result>>

\* clear
ManualClear ==
  /\ UNCHANGED outsideManual
  /\ m_data' = [order |-> << >>, enabled |-> FALSE]
  /\ UNCHANGED <<m_call, m_result>>

\* apply_order on the rows of a finished build.
ManualApplyOrder ==
  /\ UNCHANGED outsideManual
  /\ \E rs \in OrderRowLists :
       /\ m_call' = [data |-> m_data, rows |-> rs]
       /\ m_result' = Some(apply_order(m_data, rs))
  /\ UNCHANGED m_data

ManualNext ==
  \/ ManualSetOrder
  \/ ManualSetEnabled
  \/ ManualClear
  \/ ManualApplyOrder

-----------------------------------------------------------------------------
(* autosort_gui: the watcher thread (_watch_loop) and _refresh_now on the   *)
(* UI thread. A step is what a thread does between two accesses to the      *)
(* state both threads share (_force_rebuild, _wake). The watcher is at the  *)
(* top of its loop and the application is not stopped.                      *)

\* What get_collection_count may return.
Counts == {1, 2}

WatchInit ==
  /\ w_pc = "loop"
  /\ _force_rebuild = FALSE
  /\ _wake = FALSE
  /\ _last_count = None
  /\ w_count = 1
  /\ w_force = FALSE
  /\ w_decision = "none"
  /\ u_pc = "idle"
  /\ u_refreshes = 0
  /\ h_pending = FALSE
  /\ h_last_failed = FALSE

watcherLocal == <<w_count, w_force, w_decision>>
uiThread == <<u_pc, u_refreshes>>

\* _refresh_now, first write: self._force_rebuild = True
RefreshSetForce ==
  /\ UNCHANGED outsideWatch
  /\ u_pc = "idle"
  /\ u_refreshes < MaxRefreshes
  /\ _force_rebuild' = TRUE
  /\ h_pending' = TRUE
  /\ u_pc' = "set_wake"
  /\ u_refreshes' = u_refreshes + 1
  /\ UNCHANGED <<w_pc, _wake, _last_count, watcherLocal, h_last_failed>>

\* _refresh_now, second write: self._wake.set()
RefreshSetWake ==
  /\ UNCHANGED outsideWatch
  /\ u_pc = "set_wake"
  /\ _wake' = TRUE
  /\ u_pc' = "idle"
  /\ UNCHANGED <<w_pc, _force_rebuild, _last_count, watcherLocal,
                 u_refreshes, h_pending, h_last_failed>>

\* No token: _handle_missing_token clears the event and waits, then the loop
\* continues.
WatchMissingToken ==
  /\ UNCHANGED outsideWatch
  /\ w_pc = "loop"
  /\ w_pc' = "clear_wake"
  /\ UNCHANGED <<_force_rebuild, _wake, _last_count, watcherLocal, uiThread,
                 h_pending, h_last_failed>>

\* _get_user_info and get_collection_count answer.
WatchPoll ==
  /\ UNCHANGED outsideWatch
  /\ w_pc = "loop"
  /\ \E count \in Counts : w_count' = count
  /\ w_pc' = "read_force"
  /\ UNCHANGED <<_force_rebuild, _wake, _last_count, w_force, w_decision,
                 uiThread, h_pending, h_last_failed>>

\* _get_user_info or get_collection_count raises: _handle_watch_exception.
WatchPollFail ==
  /\ UNCHANGED outsideWatch
  /\ w_pc = "loop"
  /\ w_pc' = "clear_wake"
  /\ UNCHANGED <<_force_rebuild, _wake, _last_count, watcherLocal, uiThread,
                 h_pending, h_last_failed>>

\* force = self._force_rebuild
WatchReadForce ==
  /\ UNCHANGED outsideWatch
  /\ w_pc = "read_force"
  /\ w_force' = _force_rebuild
  /\ w_pc' = "clear_force"
  /\ UNCHANGED <<_force_rebuild, _wake, _last_count, w_count, w_decision,
                 uiThread, h_pending, h_last_failed>>

\* self._force_rebuild = False
WatchClearForce ==
  /\ UNCHANGED outsideWatch
  /\ w_pc = "clear_force"
  /\ _force_rebuild' = FALSE
  /\ w_pc' = "decide"
  /\ UNCHANGED <<_wake, _last_count, watcherLocal, uiThread, h_pending,
                 h_last_failed>>

\* _should_build_initial: _handle_initial_build records the first count and
\* starts build_once.
WatchInitialBuild ==
  /\ UNCHANGED outsideWatch
  /\ w_pc = "decide"
  /\ _last_count = None \/ w_force
  /\ _last_count' = IF _last_count = None THEN Some(w_count) ELSE _last_count
  /\ w_decision' = IF w_force THEN "forced" ELSE "initial"
  /\ h_pending' = IF w_force THEN FALSE ELSE h_pending
  /\ w_pc' = "building"
  /\ UNCHANGED <<_force_rebuild, _wake, w_count, w_force, uiThread,
                 h_last_failed>>

\* count != self._last_count: _handle_collection_changed records the count and
\* starts build_once.
WatchCollectionChanged ==
  /\ UNCHANGED outsideWatch
  /\ w_pc = "decide"
  /\ ~(_last_count = None \/ w_force)
  /\ Some(w_count) # _last_count
  /\ _last_count' = Some(w_count)
  /\ w_decision' = "changed"
  /\ w_pc' = "building"
  /\ UNCHANGED <<_force_rebuild, _wake, w_count, w_force, uiThread,
                 h_pending, h_last_failed>>

\* "No changes. Polling every ..."
WatchNoChanges ==
  /\ UNCHANGED outsideWatch
  /\ w_pc = "decide"
  /\ ~(_last_count = None \/ w_force)
  /\ Some(w_count) = _last_count
  /\ w_decision' = "no_changes"
  /\ w_pc' = "clear_wake"
  /\ UNCHANGED <<_force_rebuild, _wake, _last_count, w_count, w_force,
                 uiThread, h_pending, h_last_failed>>

\* build_once returns and the result is queued.
WatchBuildDone ==
  /\ UNCHANGED outsideWatch
  /\ w_pc = "building"
  /\ h_last_failed' = FALSE
  /\ w_pc' = "clear_wake"
  /\ UNCHANGED <<_force_rebuild, _wake, _last_count, watcherLocal, uiThread,
                 h_pending>>

\* build_once raises: _handle_watch_exception logs the error.
WatchBuildFail ==
  /\ UNCHANGED outsideWatch
  /\ w_pc = "building"
  /\ h_last_failed' = TRUE
  /\ w_pc' = "clear_wake"
  /\ UNCHANGED <<_force_rebuild, _wake, _last_count, watcherLocal, uiThread,
                 h_pending>>

\* self._wake.clear()
WatchClearWake ==
  /\ UNCHANGED outsideWatch
  /\ w_pc = "clear_wake"
  /\ _wake' = FALSE
  /\ w_pc' = "wait"
  /\ UNCHANGED <<_force_rebuild, _last_count, watcherLocal, uiThread,
                 h_pending, h_last_failed>>

\* self._wake.wait(timeout=cfg.poll_seconds) returns: the event is set, or
\* the poll interval is over.
WatchWaitOver ==
  /\ UNCHANGED outsideWatch
  /\ w_pc = "wait"
  /\ w_pc' = "loop"
  /\ UNCHANGED <<_force_rebuild, _wake, _last_count, watcherLocal, uiThread,
                 h_pending, h_last_failed>>

WatchNext ==
  \/ RefreshSetForce
  \/ RefreshSetWake
  \/ WatchMissingToken
  \/ WatchPoll
  \/ WatchPollFail
  \/ WatchReadForce
  \/ WatchClearForce
  \/ WatchInitialBuild
  \/ WatchCollectionChanged
  \/ WatchNoChanges
  \/ WatchBuildDone
  \/ WatchBuildFail
  \/ WatchClearWake
  \/ WatchWaitOver

-----------------------------------------------------------------------------
(* gui_app: the Run button                                                  *)

RunInit ==
  /\ g_clicks = 0
  /\ g_running = 0

\* _run_clicked: reads the form and starts a thread on _run_task.
RunClicked ==
  /\ UNCHANGED outsideRun
  /\ g_clicks < MaxClicks
  /\ g_clicks' = g_clicks + 1
  /\ g_running' = g_running + 1

\* A _run_task thread ends: "Done.", no rows, or an error shown.
RunTaskEnds ==
  /\ UNCHANGED outsideRun
  /\ g_running > 0
  /\ g_running' = g_running - 1
  /\ UNCHANGED g_clicks

RunNext ==
  \/ RunClicked
  \/ RunTaskEnds

\* The two host GUIs.
GuisNext ==
  \/ WatchNext
  \/ RunNext

-----------------------------------------------------------------------------
Init ==
  CacheInit /\ BuildInit /\ ApiInit /\ IterInit /\ ObjInit /\ KeysInit
  /\ LpInit
  /\ LpCollectInit
  /\ SortInit
  /\ ManualInit
  /\ WatchInit
  /\ RunInit

Next ==
  \/ BuildStart
  \/ AuthFail
  \/ AuthOk
  \/ MkdirFail
  \/ MkdirOk
  \/ CollectFail
  \/ CollectRows
  \/ PopulateFromCache
  \/ FetchSkip
  \/ FetchLookup
  \/ FetchReuse
  \/ CachePrices
  \/ SortAndFinish

Spec == Init /\ [][Next]_vars

SpecApi == Init /\ [][ApiNext]_vars

SpecIter == Init /\ [][IterNext]_vars

SpecCache == Init /\ [][ObjNext]_vars

SpecKeys == Init /\ [][KeysNext]_vars

SpecLp == Init /\ [][LpNext]_vars

SpecLpCollect == Init /\ [][LpCollectNext]_vars

SpecSort == Init /\ [][SortNext]_vars

SpecManual == Init /\ [][ManualNext]_vars

SpecWatch == Init /\ [][WatchNext]_vars

SpecGuis == Init /\ [][GuisNext]_vars

-----------------------------------------------------------------------------
(* Properties of the price cache and of build_once                          *)


SevenDays == 7 * 86400

Age(r, c) == now - PriceData(cache, r, c).fetched_at

\* The cache still is what _populate_prices_from_cache read: the fetch loop
\* is running or has ended, or every row was served from the cache.
PricePhaseCacheAsRead ==
  \/ pc = "fetch"
  \/ pc = "sort" /\ need_prices(cfg) /\ needing = << >>

\* The price phase of this run is over (before sorting).
PricePhaseOver == pc = "sort" /\ need_prices(cfg)

NotForSaleEntry(r, c) ==
  /\ HasPrice(cache, r, c)
  /\ PriceData(cache, r, c).lowest_price = None
  /\ PriceData(cache, r, c).num_for_sale = Some(0)

\* C1: a release cached as not for sale (lowest_price None, num_for_sale 0)
\* less than 7 days ago, for the run's user and currency, is not requested
\* from the marketplace in this run.
C1_NotForSaleNotRequeried ==
  pc = "fetch" =>
    \A r \in Range(requested) :
      ~(NotForSaleEntry(r, cfg.currency) /\ Age(r, cfg.currency) <= SevenDays)

\* C2: in the price phase a row whose entry for the configured currency is at
\* most 7 days old and holds a price has that price and causes no request; a
\* row whose entry is missing or older has no price before its own lookup, is
\* on the fetch list, and has been looked up when the fetch loop ends.
C2_FreshFromCacheStaleFetched ==
  PricePhaseCacheAsRead =>
    \A i \in 1..Len(rows) :
      LET r == rows[i].release_id
          c == cfg.currency
      IN r # NoReleaseId =>
           IF HasPrice(cache, r, c) /\ Age(r, c) <= SevenDays
              /\ PriceData(cache, r, c).lowest_price # None
             THEN /\ rows[i].lowest_price = PriceData(cache, r, c).lowest_price
                  /\ r \notin Range(requested)
                  /\ i \notin Range(needing)
           ELSE (~HasPrice(cache, r, c) \/ Age(r, c) > SevenDays) =>
                  /\ i \in Range(needing)
                  /\ (r \notin Range(requested) /\ r \notin DOMAIN price_cache)
                       => rows[i].lowest_price = None
                  /\ (pc = "fetch" /\ fidx > Len(needing))
                       => r \in Range(requested)

\* C2 witness: the fetch loop has ended with one row served from an entry
\* exactly 7 days old and another row, without entry, looked up.
C2_Witness ==
  /\ pc = "fetch"
  /\ fidx > Len(needing)
  /\ \E i, j \in 1..Len(rows) :
       /\ rows[i].release_id # NoReleaseId
       /\ HasPrice(cache, rows[i].release_id, cfg.currency)
       /\ Age(rows[i].release_id, cfg.currency) = SevenDays
       /\ rows[i].lowest_price # None
       /\ rows[i].release_id \notin Range(requested)
       /\ rows[j].release_id # NoReleaseId
       /\ ~HasPrice(cache, rows[j].release_id, cfg.currency)
       /\ rows[j].release_id \in Range(requested)

\* C3: get_price reports an existing entry fresh up to 604800 seconds of age
\* and stale from 604801 seconds on, and (None, None, True) without entry.
C3_StaleAfterSevenDays ==
  \A r \in Releases, c \in Currencies :
    LET got == get_price(cache, r, c, now)
    IN IF HasPrice(cache, r, c)
         THEN /\ Age(r, c) <= 604800 => got.is_stale = FALSE
              /\ Age(r, c) >= 604801 => got.is_stale = TRUE
              /\ got.lowest_price = PriceData(cache, r, c).lowest_price
              /\ got.num_for_sale = PriceData(cache, r, c).num_for_sale
         ELSE got = [lowest_price |-> None, num_for_sale |-> None,
                     is_stale |-> TRUE]

\* C3 witness: the price phase reads an entry that is exactly 604800 seconds
\* old, another one 604801 seconds old never being there at the same time.
C3_Witness ==
  /\ pc = "prices"
  /\ \E i \in 1..Len(rows) :
       /\ rows[i].release_id # NoReleaseId
       /\ HasPrice(cache, rows[i].release_id, cfg.currency)
       /\ Age(rows[i].release_id, cfg.currency) = 604800
       /\ ~get_price(cache, rows[i].release_id, cfg.currency, now).is_stale

\* C4: when the price phase has written the cache, an entry (None, 0) stands
\* only for a release whose lookup reported zero listings (or blocked); a
\* failed lookup, whose row has num_for_sale None, leaves no such entry.
C4_NotForSaleOnlyWhenReported ==
  (PricePhaseOver /\ needing # << >>) =>
    \A k \in 1..Len(needing) :
      LET row == rows[needing[k]]
      IN (row.release_id # NoReleaseId
          /\ NotForSaleEntry(row.release_id, cfg.currency))
           => row.num_for_sale = Some(0)

\* C5: after the price phase every row with a known lowest_price carries the
\* currency the API answered in for that price, fetched now or cached.
C5_PriceCurrencyIsApiCurrency ==
  PricePhaseOver =>
    \A i \in 1..Len(rows) :
      rows[i].lowest_price # None =>
        rows[i].price_currency = quoted[rows[i].release_id, cfg.currency]

Terminal(m) == m[1] \in {"done", "error"}

\* C10: a finished run has put exactly one terminal message, as its last
\* message: done when it returns sorted rows, error when it raises or finds
\* no rows; done comes only after sorting.
C10_OneTerminalMessage ==
  /\ pc \in {"returned", "raised"} =>
       /\ Cardinality({k \in 1..Len(main_progress_q) :
                         Terminal(main_progress_q[k])}) = 1
       /\ Terminal(main_progress_q[Len(main_progress_q)])
       /\ (pc = "raised" \/ rows = << >>)
            => main_progress_q[Len(main_progress_q)][1] = "error"
       /\ (pc = "returned" /\ rows # << >>)
            => main_progress_q[Len(main_progress_q)][1] = "done"
  /\ \A k \in 1..Len(main_progress_q) :
       /\ main_progress_q[k][1] = "done" => rows_sorted # None
       /\ Terminal(main_progress_q[k]) =>
            \A j \in (k + 1)..Len(main_progress_q) :
              main_progress_q[j][1] # "update"

\* fetch_release_price's answer when the lookup raised: (None, None, currency).
FailedLookup(fetched) == fetched[1] = None /\ fetched[2] = None

\* The rows of the fetch list the loop has passed: each was looked up, and a
\* row whose lookup failed has no price.
LookedUpBefore(n) ==
  \A k \in 1..n :
    LET row == rows[needing[k]]
    IN row.release_id # NoReleaseId =>
         /\ row.release_id \in DOMAIN price_cache
         /\ row.release_id \in Range(requested)
         /\ FailedLookup(price_cache[row.release_id]) => row.lowest_price = None

IsPermutation(s, t) ==
  /\ Len(s) = Len(t)
  /\ \E f \in [1..Len(s) -> 1..Len(s)] :
       /\ \A i, j \in 1..Len(s) : f[i] = f[j] => i = j
       /\ \A i \in 1..Len(s) : s[i] = t[f[i]]

InSortOrder(s, sort_by) ==
  \A i, j \in 1..Len(s) :
    i < j => ~TupleLess(SortKey(s[j], "normal", sort_by),
                        SortKey(s[i], "normal", sort_by))

\* C11: failed marketplace lookups do not stop the run: the fetch loop goes
\* on to the remaining rows, no run that issued a lookup raises, and the run
\* returns all collected rows in sort order, those whose lookup failed with
\* lowest_price None.
C11_FailedLookupsKeepTheBuild ==
  /\ pc = "fetch" => LookedUpBefore(fidx - 1)
  /\ pc = "raised" => requested = << >>
  /\ (pc = "returned" /\ collected # << >>) =>
       /\ rows_sorted # None
       /\ IsPermutation(Val(rows_sorted), rows)
       /\ Len(rows) = Len(collected)
       /\ InSortOrder(Val(rows_sorted), cfg.sort_by)
       /\ LookedUpBefore(Len(needing))

\* C11 witness: a run returned two sorted rows; the first lookup failed and
\* left its row without price, the second one succeeded.
C11_Witness ==
  /\ pc = "returned"
  /\ Len(requested) = 2
  /\ FailedLookup(price_cache[requested[1]])
  /\ price_cache[requested[2]][1] # None
  /\ Len(Val(rows_sorted)) = 2
  /\ \E i, j \in 1..2 :
       /\ rows[i].release_id = requested[1] /\ rows[i].lowest_price = None
       /\ rows[j].release_id = requested[2] /\ rows[j].lowest_price # None

\* C12: set_username(u) on a cache of another user leaves no release and no
\* price and the username u, and on a cache of u changes nothing; so in a
\* run every price in the cache was stored by a run of the same user.
C12_CacheOfCurrentUserOnly ==
  /\ \A u \in Users :
       LET after == set_username(cache, u)
       IN IF cache.username # Some(u)
            THEN after.releases = << >> /\ after.username = Some(u)
            ELSE after = cache
  /\ username # "" =>
       /\ cache.username = Some(username)
       /\ \A r \in Releases, c \in Currencies :
            HasPrice(cache, r, c) => stored_by[r, c] = username

\* C12 witness: the second run is another user's: set_username has emptied
\* the cache and saved it, and the price phase starts from no entry.
C12_Witness ==
  /\ runs = 2
  /\ pc = "prices"
  /\ file_writes = 1
  /\ cache = EmptyData(Some(username))
  /\ cache_file = Some(cache)

\* A step of the price phase: the last one of a fetch loop writes the file
\* once and ends the phase, every other one leaves the file alone.
PricePhaseStepWritesAtEnd ==
  (pc = "prices" \/ pc = "fetch") =>
    IF pc = "fetch" /\ fidx > Len(needing)
      THEN file_writes' = file_writes + 1 /\ pc' = "sort"
      ELSE file_writes' = file_writes /\ cache_file' = cache_file

\* C14: in the price phase the cache file is not written while lookups of
\* the batch remain; it is written once, when the fetch loop has ended, and
\* the phase ends with that write.
C14_OneWriteAfterTheBatch == [][PricePhaseStepWritesAtEnd]_vars

\* C14 witness: a price phase of two lookups has ended and the file, written
\* once in this run, holds the cache with both entries.
C14_Witness ==
  /\ pc = "sort"
  /\ Len(requested) = 2
  /\ file_writes = 1
  /\ cache_file = Some(cache)
  /\ \A k \in 1..2 : HasPrice(cache, requested[k], cfg.currency)

\* A row without its pricing fields.
Unpriced(row) ==
  [row EXCEPT !.lowest_price = None, !.median_price = None,
              !.num_for_sale = None, !.price_currency = ""]

\* C16: price enrichment changes only lowest_price, median_price,
\* num_for_sale and price_currency: apart from these the rows are, one by
\* one and in the same order, the rows collected.
C16_OnlyPricingFieldsChange ==
  /\ Len(rows) = Len(collected)
  /\ \A i \in 1..Len(rows) : Unpriced(rows[i]) = collected[i]

\* C16 witness: after the price phase one row has its price from the cache
\* and another one from a lookup.
C16_Witness ==
  /\ pc = "sort"
  /\ \E i, j \in 1..Len(rows) :
       /\ i \notin Range(needing) /\ rows[i].lowest_price # None
       /\ j \in Range(needing) /\ rows[j].lowest_price # None

-----------------------------------------------------------------------------
(* Properties of the CollectionCache object                                 *)

\* The price and the number for sale get_price returns.
Priced(data, r, c) ==
  <<get_price(data, r, c, now).lowest_price,
    get_price(data, r, c, now).num_for_sale>>

\* C13: set_price(r, c, ...) leaves what get_price returns for every other
\* release and every other currency of r; clear_prices(c) removes every
\* entry of currency c and leaves the entries of the other currencies.
C13_CurrencyIsPartOfTheKey ==
  /\ (k_op.name = "set_price" /\ ~k_raised) =>
       /\ HasPrice(k_data, k_op.release_id, Val(k_op.currency))
       /\ \A r \in Releases, c \in Currencies :
            (r # k_op.release_id \/ c # Val(k_op.currency)) =>
              Priced(k_data, r, c) = Priced(k_before, r, c)
  /\ (k_op.name = "clear_prices" /\ ~k_raised /\ k_op.currency # None) =>
       \A r \in Releases, c \in Currencies :
         IF c = Val(k_op.currency)
           THEN ~HasPrice(k_data, r, c)
           ELSE /\ HasPrice(k_data, r, c) <=> HasPrice(k_before, r, c)
                /\ HasPrice(k_data, r, c) =>
                     PriceData(k_data, r, c) = PriceData(k_before, r, c)

\* C13 witness: a release holds a USD and a EUR entry and clear_prices("EUR")
\* has just removed the EUR one.
C13_Witness ==
  /\ k_op = Op("clear_prices", NoReleaseId, Some("EUR"))
  /\ \E r \in Releases :
       /\ HasPrice(k_before, r, "USD") /\ HasPrice(k_before, r, "EUR")
       /\ HasPrice(k_data, r, "USD") /\ ~HasPrice(k_data, r, "EUR")

\* The file has no version 1 content: absent, unparsable, or another version.
NoVersion1File(file) == ~(file.json = "dict" /\ file.version = Some(1))

\* C15: a cache constructed from a file that is missing, unparsable or not
\* of version 1 starts empty with username None, none of its operations
\* raises, and a save leaves _data as it was, whatever becomes of the file.
C15_BadFileGivesEmptyCache ==
  (k_pc = "ready" /\ NoVersion1File(k_origin)) =>
    /\ k_op.name = "__init__" => k_data = EmptyData(None)
    /\ ~k_raised
    /\ k_intact
    /\ k_op.name = "save" => k_data = k_before

\* C15 witness: constructed from a version 2 file without "releases", the
\* cache took a price, and a save that failed left the file unparsable and
\* the price in memory.
C15_Witness ==
  /\ k_pc = "ready"
  /\ k_origin = File("dict", Some(2), Some("alice"), None)
  /\ k_op.name = "save"
  /\ k_file.json = "unparsable"
  /\ \E r \in Releases, c \in Currencies : HasPrice(k_data, r, c)

-----------------------------------------------------------------------------
(* Properties of api_get                                                    *)

Gets == {k \in 1..Len(a_log) : a_log[k].op = "get"}

LastGet == a_log[CHOOSE k \in Gets : \A j \in Gets : j <= k]

\* The attempt ended in HTTP 429, a 5xx status or a transport exception.
EndedTransient(e) ==
  \/ e.raised = "transport"
  \/ e.raised = "" /\ (e.status = 429 \/ e.status \in 500..599)

\* The error the code records for such an attempt.
ErrorRecorded(e) ==
  IF e.raised = "transport" THEN TransportError ELSE TransientError(e.status)

\* C6: api_get issues at most retries requests, returns the first response
\* with a status below 400, and when every attempt ended in 429, 5xx or a
\* transport exception raises, after retries attempts, the last one's error.
C6_BoundedRetriesLastError ==
  /\ Cardinality(Gets) <= retries
  /\ a_pc = "returned" =>
       /\ LastGet.raised = "" /\ LastGet.status < 400
       /\ a_log[Len(a_log)] = LastGet
       /\ a_result = Some([kind |-> "response", status |-> LastGet.status])
       /\ \A k \in Gets : a_log[k].status < 400 /\ a_log[k].raised = ""
                            => k = Len(a_log)
  /\ (a_pc = "raised" /\ Gets # {} /\ \A k \in Gets : EndedTransient(a_log[k]))
       => /\ Cardinality(Gets) = retries
          /\ a_result = Some(ErrorRecorded(LastGet))

\* C6 witness: three attempts, 429 then 500 then a transport exception, and
\* the transport exception is raised.
C6_Witness ==
  /\ a_pc = "raised"
  /\ retries = 3
  /\ Cardinality(Gets) = 3
  /\ a_log[1].status = 429
  /\ a_log[3].status = 500
  /\ LastGet.raised = "transport"
  /\ a_result = Some(TransportError)

FatalStatus(e) ==
  /\ e.op = "get"
  /\ e.raised = ""
  /\ e.status >= 400
  /\ e.status # 429
  /\ ~(e.status \in 500..599)

\* C7: a response with a status from 400 that is neither 429 nor 5xx is the
\* last event of the call (no sleep, no request after it) and is raised.
C7_FatalStatusRaisedAtOnce ==
  \A k \in 1..Len(a_log) :
    FatalStatus(a_log[k]) =>
      /\ k = Len(a_log)
      /\ a_pc = "raised"
      /\ a_result = Some(FatalError(a_log[k].status))

\* C7 witness: a 404 raised on the third attempt, after a 503-like status and
\* a transport exception were retried.
C7_Witness ==
  /\ a_pc = "raised"
  /\ Len(a_log) = 5
  /\ a_log[1].status = 500
  /\ a_log[3].raised = "transport"
  /\ a_log[5].status = 404
  /\ a_result = Some(FatalError(404))

-----------------------------------------------------------------------------
(* Properties of iterate_collection                                         *)

Max(a, b) == IF a > b THEN a ELSE b

\* The total the first response declares (1 when the field is missing).
Declared == IF responses[1].pages = None THEN 1 ELSE Val(responses[1].pages)

CapOr0 == IF max_pages = None THEN 0 ELSE Val(max_pages)

RECURSIVE Flatten(_)
Flatten(rs) == IF rs = << >> THEN << >> ELSE Head(rs).releases \o Flatten(Tail(rs))

\* C8: with every request answered the loop ends for every declared total
\* and every cap: it requests no page beyond the larger of the declared
\* total (the first page at least) and the cap.
C8_LoopEnds ==
  responses # << >> =>
    Len(i_requested) <= Max(Max(1, Declared), CapOr0)

\* C9: with a declared total T >= 1 and a cap M >= 1 the pages requested are
\* 1..min(T, M) in order, the total is the first response's, and the items
\* yielded are those of the pages, in the order answered.
C9_PagesUpToMinTotalCap ==
  (responses # << >> /\ Declared >= 1 /\ Truthy(max_pages)) =>
    /\ total_pages = Some(Declared)
    /\ \A k \in 1..Len(i_requested) : i_requested[k] = k
    /\ Len(i_requested) <= Min(Declared, Val(max_pages))
    /\ i_pc # "raised" =>
         /\ Len(responses) = Len(i_requested)
         /\ yielded = Flatten(responses)
    /\ i_pc = "done" <=>
         (Len(responses) = Min(Declared, Val(max_pages)) /\ i_pc # "raised")

\* C9 witness: 3 pages declared, cap 2, two full pages answered (the second
\* one declaring another total): two pages of items yielded, then done.
C9_Witness ==
  /\ i_pc = "done"
  /\ max_pages = Some(2)
  /\ Len(responses) = 2
  /\ responses[1].pages = Some(3)
  /\ responses[2].pages = Some(0)
  /\ i_requested = <<1, 2>>
  /\ Len(yielded) = 2 * PerPage

-----------------------------------------------------------------------------
(* Properties of make_sort_keys                                             *)

\* The results there are: of the discogs_app copy, of the core.sorting copy.
KeysReturned == {Val(k) : k \in {s_keys, s_core_keys} \ {None}}

IsLowerCase(s) == lower(s) = s

\* The first credited artist: the display string without its numeric suffix,
\* up to the first '/' or ','.
FirstCredited(artist_display) ==
  strip(BeforeFirst(strip_discogs_numeric_suffix(artist_display), {"/", ","}))

NameTokens == Tokens(FirstCredited(s_args.artist_display))

\* The articles that lead a text: the, a, an or an extra one, then a space.
LeadingArticles(text, extra_articles) ==
  {art \in Range(ArticleList(extra_articles)) :
     startswith(lower(strip(text)), art \o <<" ">>)}

ArticleRemoved(key, text, extra_articles) ==
  \A art \in LeadingArticles(text, extra_articles) :
    ~startswith(key, art \o <<" ">>)

\* C17: whatever the flags, both sort keys are lower case and do not begin
\* with the article that leads the first credited artist, or the title.
C17_KeysLowercaseWithoutArticle ==
  \A keys \in KeysReturned :
    /\ IsLowerCase(keys[1]) /\ IsLowerCase(keys[2])
    /\ ArticleRemoved(keys[1], FirstCredited(s_args.artist_display),
                      s_args.extra_articles)
    /\ ArticleRemoved(keys[2], s_args.title, s_args.extra_articles)

\* The key without the flip: what the same copy returns with last_name_first
\* off.
Unflipped == [s_args EXCEPT !.last_name_first = FALSE]

\* The name each copy looks up in the exclude set.
ExcludedApp ==
  _normalize_exclude_name(
    strip(strip_discogs_numeric_suffix(s_args.artist_display)))
  \in s_args.lnf_exclude

ExcludedCore ==
  _normalize_exclude_name(FirstCredited(s_args.artist_display))
  \in s_args.lnf_exclude

\* "<second>, <first>" in lower case
FlippedTwo(tokens) == lower(tokens[2] \o <<",", " ">> \o tokens[1])

\* Both tokens alphabetic (apostrophe, hyphen allowed), neither the/and/&,
\* and the pair not kept as a band by safe-band mode.
FlipsTwo(tokens) ==
  /\ \A i \in 1..2 : MatchesNameToken(tokens[i])
  /\ \A i \in 1..2 : lower(tokens[i]) \notin NotNames
  /\ ~(s_args.lnf_safe_bands /\ is_band_like(tokens[1], tokens[2]))

\* What the claim says of a name of two tokens under last_name_first.
TwoTokenKey(key, baseline) ==
  IF FlipsTwo(NameTokens) THEN key = FlippedTwo(NameTokens)
  ELSE key = baseline

\* The flipped keys of the examples.
DavisMiles ==
  <<"d", "a", "v", "i", "s", ",", " ", "m", "i", "l", "e", "s">>

MonkThelonious ==
  <<"m", "o", "n", "k", ",", " ", "t", "h", "e", "l", "o", "n", "i", "o", "u",
  "s">>

JarreJeanMichel ==
  <<"j", "a", "r", "r", "e", ",", " ", "j", "e", "a", "n", "-", "m", "i", "c",
  "h", "e", "l">>

BoysBeach ==
  <<"b", "o", "y", "s", ",", " ", "b", "e", "a", "c", "h">>

TopsBox ==
  <<"t", "o", "p", "s", ",", " ", "b", "o", "x">>

StarBig ==
  <<"s", "t", "a", "r", ",", " ", "b", "i", "g">>

\* The examples: persons flip in both modes, band-like pairs only with
\* safe-band mode off.
TwoTokenExamples(key) ==
  LET d == s_args.artist_display
      safe == s_args.lnf_safe_bands
  IN /\ d = MilesDavis => key = DavisMiles
     /\ d = TheloniousMonk => key = MonkThelonious
     /\ d = JeanMichelJarre => key = JarreJeanMichel
     /\ d = BeachBoys => key = IF safe THEN lower(BeachBoys) ELSE BoysBeach
     /\ d = BoxTops => key = IF safe THEN lower(BoxTops) ELSE TopsBox
     /\ d = BigStar => key = IF safe THEN lower(BigStar) ELSE StarBig

FlippedThree(tokens) ==
  lower(tokens[3] \o <<",", " ">> \o tokens[1] \o <<" ">> \o tokens[2])

IsLetter(ch) == \E k \in 1..26 : ch = UpperCase[k] \/ ch = LowerCase[k]

\* The first token is not the/and/&, the middle one is a single letter, ends
\* with a period or is a particle.
FlipsThree(tokens) ==
  /\ lower(tokens[1]) \notin NotNames
  /\ \/ Len(tokens[2]) = 1 /\ IsLetter(tokens[2][1])
     \/ endswith(tokens[2], <<".">>)
     \/ lower(tokens[2]) \in particles

\* C19: with last_name_first on, a name of three tokens that is not excluded
\* is flipped to "<last>, <first> <middle>" exactly when the three-word flip
\* is enabled, the first token is not the/and/& and the middle token is a
\* single letter, ends with a period or is a particle.
C19_ThreeTokenNamesFlip ==
  (s_args.last_name_first /\ Len(NameTokens) = 3) =>
    /\ (s_keys # None /\ ~ExcludedApp) =>
         (Val(s_keys)[1] = FlippedThree(NameTokens)
            <=> (s_args.lnf_allow_3 /\ FlipsThree(NameTokens)))
    /\ (s_core_keys # None /\ ~ExcludedCore) =>
         (Val(s_core_keys)[1] = FlippedThree(NameTokens)
            <=> (s_args.lnf_allow_3 /\ FlipsThree(NameTokens)))

\* The call with the first credited artist alone as artist_display.
FirstCreditedOnly ==
  [s_args EXCEPT !.artist_display = FirstCredited(s_args.artist_display)]

\* C20: in both copies sort_artist is what the first credited artist alone
\* gives, whatever follows the first '/' or ','.
C20_SortArtistFromFirstCredited ==
  /\ s_keys # None => Val(s_keys)[1] = make_sort_keys(FirstCreditedOnly)[1]
  /\ s_core_keys # None =>
       Val(s_core_keys)[1] = sorting_make_sort_keys(FirstCreditedOnly)[1]

-----------------------------------------------------------------------------
(* Properties of is_lp_33 and collect_lp_rows                               *)

\* The results there are: of the discogs_app copy, of the core.sorting copy.
LpResults == {Val(r) : r \in {l_result, l_core_result} \ {None}}

\* The format entries named Vinyl, whatever the case and the blanks around.
VinylEntries(basic) ==
  {f \in Range(basic.formats) :
     lower(strip(f.name)) = <<"v", "i", "n", "y", "l">>}

\* A description of the entry is one of the words, case and blanks aside.
Says(f, words) == \E d \in f.descriptions : lower(strip(d)) \in words

IsLpOrAlbum(f) == Says(f, {<<"l", "p">>, <<"a", "l", "b", "u", "m">>})

Has12Inch(f) ==
  Says(f, {<<"1", "2", "\"">>, <<"1", "2", "i", "n">>,
           <<"1", "2", "-", "i", "n", "c", "h">>})

\* The entry's descriptions satisfy the 33-RPM heuristic.
Shows33(f) == _desc_set_has_33rpm({lower(strip(d)) : d \in f.descriptions})

\* A description of the entry contains 45 or 78.
Shows45Or78(f) ==
  \E d \in f.descriptions : In(<<"4", "5">>, d) \/ In(<<"7", "8">>, d)

OnlyLP == Basic(<<Format(Vinyl, {DescLP})>>)
TwelveInch33 == Basic(<<Format(Vinyl, {Desc12Inch, Desc33RPM})>>)
LPAt45 == Basic(<<Format(Vinyl, {DescLP, Desc45RPM})>>)

\* C21: by default is_lp_33 is true exactly when a Vinyl entry says LP or
\* Album, or carries a 12-inch size and satisfies the 33-RPM heuristic; under
\* strict (whatever probable is) exactly when a Vinyl entry says LP or Album
\* and satisfies the 33-RPM heuristic. A Vinyl item described only as LP is
\* accepted by default and rejected by strict; an item with no Vinyl entry is
\* rejected.
C21_DefaultAndStrictPolicy ==
  \A r \in LpResults :
    LET basic == l_args.basic
        entries == VinylEntries(basic)
    IN /\ l_args.strict =>
            r = (\E f \in entries : IsLpOrAlbum(f) /\ Shows33(f))
       /\ (~l_args.strict /\ ~l_args.probable) =>
            r = (\E f \in entries :
                   IsLpOrAlbum(f) \/ (Has12Inch(f) /\ Shows33(f)))
       /\ (basic = OnlyLP /\ l_args.strict) => r = FALSE
       /\ (basic = OnlyLP /\ ~l_args.strict /\ ~l_args.probable) => r = TRUE
       /\ entries = {} => r = FALSE

\* C21 witness: both copies have accepted, by default, a 12-inch Vinyl at
\* 33 RPM that says neither LP nor Album.
C21_Witness ==
  /\ l_args = [basic |-> TwelveInch33, strict |-> FALSE, probable |-> FALSE]
  /\ l_result = Some(TRUE)
  /\ l_core_result = Some(TRUE)

RejectedFor45Or78(item) ==
  /\ item # None
  /\ \E f \in VinylEntries(Val(item)) : IsLpOrAlbum(f)
  /\ \A f \in VinylEntries(Val(item)) : IsLpOrAlbum(f) => Shows45Or78(f)

-----------------------------------------------------------------------------
(* Properties of sort_rows                                                  *)

Sorted == Val(t_result)

\* C23: sorted by price_asc or price_desc, every row without a price comes
\* after every row with one; the priced rows are in non-decreasing order of
\* price for price_asc, non-increasing for price_desc; and the result is a
\* permutation of the input.
C23_UnpricedRowsSortLast ==
  (t_result # None /\ t_args.sort_by \in {"price_asc", "price_desc"}) =>
    /\ IsPermutation(Sorted, t_args.rows)
    /\ \A i, j \in 1..Len(Sorted) :
         i < j =>
           /\ Sorted[i].lowest_price = None => Sorted[j].lowest_price = None
           /\ (Sorted[i].lowest_price # None /\ Sorted[j].lowest_price # None) =>
                IF t_args.sort_by = "price_asc"
                  THEN Val(Sorted[i].lowest_price) <= Val(Sorted[j].lowest_price)
                  ELSE Val(Sorted[i].lowest_price) >= Val(Sorted[j].lowest_price)

\* C23 witness: a list that began with a row without a price and held a row
\* priced 0 has been sorted by ascending price.
C23_Witness ==
  /\ t_result # None
  /\ t_args.sort_by = "price_asc"
  /\ Len(t_args.rows) = MaxSortRows
  /\ t_args.rows[1].lowest_price = None
  /\ \E i \in 1..Len(t_args.rows) : t_args.rows[i].lowest_price = Some(0)
  /\ \E i \in 1..Len(t_args.rows) : t_args.rows[i].lowest_price = Some(5)
  /\ Sorted # t_args.rows

IsVarious(r) == r.artist_display \in {"Various", "Various Artists"}

\* (a, b) <= (c, d) in the order of tuples
PairLeq(a, b, c, d) == a < c \/ (a = c /\ b <= d)

\* The key a row is filed under with the 'title' policy.
FiledUnder(r) == IF IsVarious(r) THEN r.sort_title ELSE r.sort_artist

\* C24: sorted by artist, with 'last' every Various row comes after every
\* other row; with 'title' a Various row is placed by its sort_title among
\* the sort_artist keys of the others, and two Various rows are in title
\* order; with 'normal' all rows are in (sort_artist, sort_title) order.
C24_VariousArtistsPolicy ==
  (t_result # None /\ t_args.sort_by = "artist") =>
    /\ IsPermutation(Sorted, t_args.rows)
    /\ \A i, j \in 1..Len(Sorted) :
         i < j =>
           LET a == Sorted[i]
               b == Sorted[j]
           IN /\ t_args.various_policy = "normal" =>
                   PairLeq(a.sort_artist, a.sort_title,
                           b.sort_artist, b.sort_title)
              /\ t_args.various_policy = "last" =>
                   /\ IsVarious(a) => IsVarious(b)
                   /\ IsVarious(a) = IsVarious(b) =>
                        PairLeq(a.sort_artist, a.sort_title,
                                b.sort_artist, b.sort_title)
              /\ t_args.various_policy = "title" =>
                   /\ FiledUnder(a) <= FiledUnder(b)
                   /\ (IsVarious(a) /\ IsVarious(b)) =>
                        a.sort_title <= b.sort_title

\* C24 witness: with 'title' a Various row has been filed before a row of
\* another artist that the 'normal' order puts first.
C24_Witness ==
  /\ t_result # None
  /\ t_args.sort_by = "artist"
  /\ t_args.various_policy = "title"
  /\ \E i, j \in 1..Len(Sorted) :
       /\ i < j
       /\ IsVarious(Sorted[i]) /\ ~IsVarious(Sorted[j])
       /\ Sorted[j].sort_artist < Sorted[i].sort_artist

-----------------------------------------------------------------------------
(* Properties of ManualOrderManager.apply_order                             *)

InManualOrder(r) ==
  r.release_id # NoReleaseId /\ r.release_id \in Range(m_call.data.order)

\* The place of a release in the saved order: its first.
PlaceInOrder(rid) ==
  CHOOSE k \in 1..Len(m_call.data.order) :
    /\ m_call.data.order[k] = rid
    /\ \A j \in 1..(k - 1) : m_call.data.order[j] # rid

\* C29: apply_order returns the input rows, each exactly once: those whose
\* release_id is in the saved order first, in that order, then the others in
\* their input order; with manual ordering off or no saved order, the input
\* itself.
C29_ApplyOrderReorders ==
  m_result # None =>
    LET out == Val(m_result)
    IN IF ~m_call.data.enabled \/ m_call.data.order = << >>
         THEN out = m_call.rows
       ELSE /\ IsPermutation(out, m_call.rows)
            /\ \A i, j \in 1..Len(out) :
                 i < j =>
                   /\ InManualOrder(out[j]) => InManualOrder(out[i])
                   /\ (InManualOrder(out[i]) /\ InManualOrder(out[j])) =>
                        PlaceInOrder(out[i].release_id)
                          <= PlaceInOrder(out[j].release_id)
            /\ SelectSeq(out, LAMBDA r : ~InManualOrder(r))
                 = SelectSeq(m_call.rows, LAMBDA r : ~InManualOrder(r))

-----------------------------------------------------------------------------
(* Properties of the watcher                                                *)

\* C26: a manual refresh is never lost: while one is requested and no forced
\* build has begun since, the watcher still has it before it, in
\* _force_rebuild or in the force it has just read.
C26_RefreshNeverLost ==
  h_pending =>
    \/ _force_rebuild
    \/ w_force /\ w_pc \in {"clear_force", "decide"}

\* C27: after a build attempt has failed, a poll does not find "no changes":
\* it attempts the build again although the count is the same.
C27_FailedBuildRetried ==
  ~(w_decision = "no_changes" /\ h_last_failed)

\* The builds in progress: build_once in the watcher thread of autosort_gui,
\* the _run_task threads of gui_app.
WatcherBuilds == IF w_pc = "building" THEN 1 ELSE 0

\* C28: in each host GUI at most one build is in progress at any time.
C28_BuildsSerialized == WatcherBuilds <= 1 /\ g_running <= 1

\* The pricing fields of a row.
PricingFields(row) ==
  <<row.lowest_price, row.median_price, row.num_for_sale, row.price_currency>>

\* The release id of the k-th row handed to fetch_prices_for_rows.
FetchedId(k) == rows[needing[k]].release_id

\* The release ids among the first n rows of the call, each once, in the
\* order of the rows that bring them in; rows without release_id bring none.
FirstOccurrences(n) ==
  LET firsts == SelectSeq([k \in 1..n |-> k],
                          LAMBDA k : /\ FetchedId(k) # NoReleaseId
                                     /\ \A j \in 1..(k - 1) :
                                          FetchedId(j) # FetchedId(k))
  IN [m \in 1..Len(firsts) |-> FetchedId(firsts[m])]

\* What holds once the loop of fetch_prices_for_rows has passed n rows.
LookupsAfter(n) ==
  /\ requested = FirstOccurrences(n)
  /\ \A j, k \in 1..n :
       (FetchedId(j) = FetchedId(k) /\ FetchedId(j) # NoReleaseId) =>
         PricingFields(rows[needing[j]]) = PricingFields(rows[needing[k]])
  /\ \A k \in 1..Len(needing) :
       FetchedId(k) = NoReleaseId =>
         PricingFields(rows[needing[k]]) = PricingFields(collected[needing[k]])

\* C30: within one call of fetch_prices_for_rows the marketplace is asked at
\* most once per distinct release_id, the lookups follow the order of the
\* rows, rows sharing a release_id end with the same pricing fields, and a
\* row without release_id causes no lookup and keeps its pricing fields.
C30_OneLookupPerRelease ==
  /\ pc = "fetch" => LookupsAfter(fidx - 1)
  /\ pc \in {"sort", "returned"} => LookupsAfter(Len(needing))

\* C30 witness: the call has passed two rows of one release; one lookup was
\* made and both rows carry its price.
C30_Witness ==
  /\ pc = "fetch"
  /\ fidx = 3
  /\ Len(needing) = 2
  /\ FetchedId(1) = FetchedId(2)
  /\ requested = <<FetchedId(1)>>
  /\ rows[needing[1]].lowest_price # None
  /\ PricingFields(rows[needing[1]]) = PricingFields(rows[needing[2]])

====
